---------------------------- MODULE Spec2Model ----------------------------
(***************************************************************************)
(* AI Hunger Games: the round engine (simulation.py), the voting system    *)
(* (voting.py), the evolution manager (evolution.py) and the agent         *)
(* (agent.py), as a state machine.                                         *)
(*                                                                         *)
(* Texts (names, generator responses, justifications) are sequences of     *)
(* tokens; a token is a word, a blank " " or a line break "\n".  A name is *)
(* the token sequence of its words separated by blanks, so that            *)
(* f"{parent.name} {suffix}" is parent.name \o <<" ", suffix>>.            *)
(***************************************************************************)
EXTENDS Integers, Sequences, FiniteSets, TLC

(***************************************************************************)
(* Bounds of the model.                                                    *)
(***************************************************************************)
MaxAgents == 3
MaxRounds == 2
MaxResponseLen == 4
MaxInserts == 12
MaxLines == 3
MaxVoters == 3
MaxMainAgents == 2
MaxRetries == 3
MaxCount == 2
MaxStarts == 3
MaxRoster == 3
MaxCreations == 2
MaxEliminations == 3
MaxAsked == 4
MaxFounders == 4
MaxPromptLen == 2

(***************************************************************************)
(* Program constants.                                                      *)
(***************************************************************************)
ALLOW_SELF_VOTING == FALSE
MAX_MEMORY_SIZE == 10

VARIABLES
    num_agents,          \* HungerGamesSimulation.num_agents
    num_rounds,          \* HungerGamesSimulation.num_rounds
    method,              \* VotingSystem.method
    allow_self_voting,   \* VotingSystem.allow_self_voting
    personalities,       \* the list load_initial_personalities returns
    objs,                \* every Agent object ever constructed, by identity
    agents,              \* HungerGamesSimulation.agents (object identities)
    all_agents_history,  \* HungerGamesSimulation.all_agents_history
    current_round,       \* HungerGamesSimulation.current_round
    total_requests,      \* LLMInterface.total_requests
    vote_history,        \* VotingSystem.vote_history
    elimination_history, \* EvolutionManager.elimination_history
    creation_history,    \* EvolutionManager.creation_history
    rounds_log,          \* SimulationLogger.simulation_data["rounds"]
    logged_agents,       \* SimulationLogger.simulation_data["agents"], each entry by the
                         \* identity of the Agent whose to_dict() it is
    survivors_printed,   \* the agents finalize lists under "FINAL SURVIVORS", in order
    pc,                  \* position of run_simulation / run_round
    round_num,           \* run_round's round_num
    idx,                 \* position of the current for-loop over agents
    answers,             \* run_round's answers dict
    votes,               \* the tally under construction (votes / points)
    vote_details,        \* the vote_details list under construction
    vote_results,        \* the result conduct_vote returned
    loser_name,          \* run_round's loser_name
    agents_before,       \* self.agents as it was when run_round was entered
    last,                \* the objects the last elimination / spawn touched
    arg,                 \* the arguments of the operation called on its own
    ret,                 \* what the operation called on its own returned
    simulation_status,   \* api/server.py: the global simulation_status
    simulation_results,  \* api/server.py: the global simulation_results
    current_simulation,  \* api/server.py: the global current_simulation, by its task
    background_tasks     \* the run_simulation_background tasks added so far, each
                         \* with the position its thread is at

vars == <<num_agents, num_rounds, method, allow_self_voting, personalities, objs, agents,
          all_agents_history, current_round, total_requests, vote_history,
          elimination_history, creation_history, rounds_log, logged_agents,
          survivors_printed, pc, round_num, idx,
          answers, votes, vote_details, vote_results, loser_name, agents_before, last, arg,
          ret, simulation_status, simulation_results, current_simulation,
          background_tasks>>

\* Python's None
None == <<"None">>
\* SimulationStatus(status="idle", message="No simulation running")
IdleStatus == [status |-> "idle", current_round |-> 0, total_rounds |-> 0,
               message |-> "No simulation running"]

server_vars == <<simulation_status, simulation_results, current_simulation, background_tasks>>

(***************************************************************************)
(* Texts.                                                                  *)
(***************************************************************************)
IsSpace(t) == t \in {" ", "\n"}

RECURSIVE LStrip(_)
LStrip(s) == IF s # <<>> /\ IsSpace(Head(s)) THEN LStrip(Tail(s)) ELSE s

RECURSIVE RStrip(_)
RStrip(s) ==
    IF s # <<>> /\ IsSpace(s[Len(s)]) THEN RStrip(SubSeq(s, 1, Len(s) - 1)) ELSE s

\* str.strip()
Strip(s) == RStrip(LStrip(s))

\* the position of the first token t of s, 0 when there is none
FirstIndexOf(s, t) ==
    IF \E i \in 1..Len(s) : s[i] = t
    THEN CHOOSE i \in 1..Len(s) : s[i] = t /\ \A j \in 1..(i - 1) : s[j] # t
    ELSE 0

\* str.split(t, 1)
SplitOnce(s, t) ==
    LET i == FirstIndexOf(s, t)
    IN  IF i = 0 THEN <<s>> ELSE <<SubSeq(s, 1, i - 1), SubSeq(s, i + 1, Len(s))>>

\* str.split('\n', 1)
SplitFirstLine(s) == SplitOnce(s, "\n")

\* str.split('\n')
RECURSIVE SplitLines(_)
SplitLines(s) ==
    LET i == FirstIndexOf(s, "\n")
    IN  IF i = 0 THEN <<s>>
        ELSE <<SubSeq(s, 1, i - 1)>> \o SplitLines(SubSeq(s, i + 1, Len(s)))

\* str.isdigit() of a one-character token
IsDigit(t) == t \in {"0", "1", "2", "3", "4", "5", "6", "7", "8", "9"}

\* the injective sequences of length k over the set S
Arrangements(S, k) ==
    {q \in [1..k -> S] : \A a, b \in 1..k : a # b => q[a] # q[b]}

(***************************************************************************)
(* Python dicts keep insertion order: a dict is a sequence of <<key,       *)
(* value>> pairs with distinct keys.                                       *)
(***************************************************************************)
DictKeys(d) == {d[i][1] : i \in DOMAIN d}
DictHas(d, k) == k \in DictKeys(d)
DictGet(d, k) == d[CHOOSE i \in DOMAIN d : d[i][1] = k][2]
\* d[k] = v
DictSet(d, k, v) ==
    IF DictHas(d, k)
    THEN [i \in DOMAIN d |-> IF d[i][1] = k THEN <<k, v>> ELSE d[i]]
    ELSE Append(d, <<k, v>>)
\* a tally that records a vote without counting it
DictAdd_Overwrite(d, k, n) == DictSet(d, k, n)
\* defaultdict: d[k] += n, a missing key starting at 0
DictAdd(d, k, n) == DictSet(d, k, (IF DictHas(d, k) THEN DictGet(d, k) ELSE 0) + n)
\* {k: v for k, v in d.items() if keep(k)}
RECURSIVE DictFilterOut(_, _)
DictFilterOut(d, k) ==
    IF d = <<>> THEN <<>>
    ELSE IF Head(d)[1] = k THEN DictFilterOut(Tail(d), k)
    ELSE <<Head(d)>> \o DictFilterOut(Tail(d), k)
RECURSIVE DictSum(_)
DictSum(d) == IF d = <<>> THEN 0 ELSE Head(d)[2] + DictSum(Tail(d))

(***************************************************************************)
(* Agent (agent.py).                                                       *)
(***************************************************************************)
NoParent == <<>>

\* Agent.__init__
Agent(name, personality_prompt, generation, parent_name, birth_round) ==
    [name |-> name, personality_prompt |-> personality_prompt, memory |-> <<>>,
     generation |-> generation, parent_name |-> parent_name,
     birth_round |-> birth_round, votes_received |-> 0, votes_cast |-> 0,
     rounds_survived |-> 0, answers_given |-> 0]

\* the slice memory[-n:]
LastN(memory, n) ==
    IF Len(memory) > n THEN SubSeq(memory, Len(memory) - n + 1, Len(memory)) ELSE memory

\* a memory that keeps its oldest entries
add_memory_KeepOldest(memory, memory_type, content, r) ==
    LET appended == Append(memory, [type |-> memory_type, content |-> content, round |-> r])
    IN  IF Len(appended) > MAX_MEMORY_SIZE THEN SubSeq(appended, 1, MAX_MEMORY_SIZE)
        ELSE appended

\* Agent.add_memory, on the memory list
add_memory(memory, memory_type, content, r) ==
    LET appended == Append(memory, [type |-> memory_type, content |-> content, round |-> r])
    IN  IF Len(appended) > MAX_MEMORY_SIZE THEN LastN(appended, MAX_MEMORY_SIZE) ELSE appended

NO_OTHER_OPTIONS == <<"No other options available.">>
NO_JUSTIFICATION == <<"No justification provided.">>
VOTE_PARSING_FAILED == <<"Vote parsing failed, random selection made.">>
ERROR_SENTINEL == <<"[Error: Request timeout]">>

\* available_answers of vote_on_answers and _get_agent_rankings
available_answers(self_name, answers_, allow_self) ==
    IF allow_self THEN answers_ ELSE DictFilterOut(answers_, self_name)

\* a vote that is taken as parsed, whether or not it names a candidate
vote_outcomes_Unvalidated(self_name, available, vote_response) ==
    LET lines == SplitFirstLine(Strip(vote_response))
    IN  IF available = <<>>
        THEN {[voted_for |-> self_name, justification |-> NO_OTHER_OPTIONS,
               calls |-> 0, cast |-> FALSE]}
        ELSE {[voted_for |-> Strip(lines[1]),
               justification |-> IF Len(lines) > 1 THEN Strip(lines[2])
                                 ELSE NO_JUSTIFICATION,
               calls |-> 1, cast |-> TRUE]}

\* Agent.vote_on_answers from available_answers on: the results it can return on
\* a generator response (calls: generator calls made; cast: whether the vote
\* was stored in the memory and counted in votes_cast)
vote_outcomes(self_name, available, vote_response) ==
    LET lines == SplitFirstLine(Strip(vote_response))
        voted_for == Strip(lines[1])
        justification == IF Len(lines) > 1 THEN Strip(lines[2]) ELSE NO_JUSTIFICATION
    IN  IF available = <<>>
        THEN {[voted_for |-> self_name, justification |-> NO_OTHER_OPTIONS,
               calls |-> 0, cast |-> FALSE]}
        ELSE IF ~DictHas(available, voted_for)
        THEN {[voted_for |-> k, justification |-> VOTE_PARSING_FAILED,
               calls |-> 1, cast |-> TRUE] : k \in DictKeys(available)}
        ELSE {[voted_for |-> voted_for, justification |-> justification,
               calls |-> 1, cast |-> TRUE]}

\* a vote that never filters the voter's own answer out
vote_on_answers_SelfAllowed(self_name, answers_, allow_self, vote_response) ==
    vote_outcomes(self_name, answers_, vote_response)

\* Agent.vote_on_answers
vote_on_answers(self_name, answers_, allow_self, vote_response) ==
    vote_outcomes(self_name, available_answers(self_name, answers_, allow_self),
                  vote_response)

\* the contents of the memories of a run, without the generated text in them
VOTED_FOR == <<"Voted for">>
QUESTION_ANSWER == <<"Q: | A:">>

\* vote_on_answers' effect on the voting agent
AgentAfterVote(agent, outcome, r) ==
    IF outcome.cast
    THEN [agent EXCEPT !.memory = add_memory(@, "vote", VOTED_FOR, r),
                       !.votes_cast = @ + 1]
    ELSE agent

\* an answer that is remembered and not counted
AgentAfterAnswer_Uncounted(agent, answer, r) ==
    [agent EXCEPT !.memory = add_memory(@, "answer", QUESTION_ANSWER, r)]

\* Agent.generate_answer's effect on the answering agent
AgentAfterAnswer(agent, answer, r) ==
    [agent EXCEPT !.memory = add_memory(@, "answer", QUESTION_ANSWER, r),
                  !.answers_given = @ + 1]

(***************************************************************************)
(* VotingSystem (voting.py).                                               *)
(***************************************************************************)
\* the last item with the least value
MinKey_LastInserted(d) ==
    d[CHOOSE i \in DOMAIN d :
        /\ \A j \in DOMAIN d : d[i][2] <= d[j][2]
        /\ \A j \in (i + 1)..Len(d) : d[j][2] > d[i][2]][1]

\* min(d.items(), key=lambda x: x[1])[0]: the first item with the least value
MinKey(d) ==
    d[CHOOSE i \in DOMAIN d :
        /\ \A j \in DOMAIN d : d[i][2] <= d[j][2]
        /\ \A j \in 1..(i - 1) : d[j][2] > d[i][2]][1]

\* max(d.items(), key=lambda x: x[1])[0]: the first item with the greatest value
MaxKey(d) ==
    d[CHOOSE i \in DOMAIN d :
        /\ \A j \in DOMAIN d : d[i][2] >= d[j][2]
        /\ \A j \in 1..(i - 1) : d[j][2] < d[i][2]][1]

EMPTY_NAME == <<>>

RANKING_PARSING_FAILED == <<"Ranking parsing failed, random order used.">>

\* the parsing loop of _get_agent_rankings over the lines left, from the ranked
\* list and the justification read so far
RECURSIVE ParseRankingLines(_, _, _, _)
ParseRankingLines(lines, available, ranked_list, justification) ==
    IF lines = <<>>
    THEN [ranked_list |-> ranked_list, justification |-> justification]
    ELSE LET line == Strip(Head(lines))
             parts == IF FirstIndexOf(line, ".") # 0 THEN SplitOnce(line, ".")
                      ELSE SplitOnce(line, "-")
         IN  IF line # <<>> /\ line[1] = "Justification"
             THEN ParseRankingLines(Tail(lines), available, ranked_list,
                      IF FirstIndexOf(line, ":") # 0
                      THEN Strip(SplitOnce(line, ":")[2]) ELSE <<>>)
             ELSE IF /\ line # <<>>
                     /\ (IsDigit(line[1]) \/ line[1] = "-")
                     /\ Len(parts) > 1
                     /\ DictHas(available, Strip(parts[2]))
             THEN ParseRankingLines(Tail(lines), available,
                      Append(ranked_list, Strip(parts[2])), justification)
             ELSE ParseRankingLines(Tail(lines), available, ranked_list, justification)

\* VotingSystem._get_agent_rankings: the results it can return on a generator
\* response (calls: generator calls made)
get_agent_rankings(self_name, answers_, allow_self, response) ==
    LET available == available_answers(self_name, answers_, allow_self)
        parsed == ParseRankingLines(SplitLines(Strip(response)), available, <<>>, <<>>)
    IN  IF available = <<>>
        THEN {[ranked_list |-> <<self_name>>, justification |-> NO_OTHER_OPTIONS,
               calls |-> 0]}
        ELSE IF parsed.ranked_list = <<>>
        THEN {[ranked_list |-> shuffled, justification |-> RANKING_PARSING_FAILED,
               calls |-> 1] : shuffled \in Arrangements(DictKeys(available), Len(available))}
        ELSE {[ranked_list |-> parsed.ranked_list,
               justification |-> parsed.justification, calls |-> 1]}

\* points counted from rank 1 instead of position 0
RECURSIVE AwardPoints_OneBased(_, _, _, _)
AwardPoints_OneBased(points, ranking, idx0, num_candidates) ==
    IF idx0 >= Len(ranking) THEN points
    ELSE AwardPoints_OneBased(
             DictAdd(points, ranking[idx0 + 1], num_candidates - (idx0 + 1)),
             ranking, idx0 + 1, num_candidates)

\* the points loop of _ranked_choice_vote over one ranking, from position idx0
\* (0-based) on
RECURSIVE AwardPoints(_, _, _, _)
AwardPoints(points, ranking, idx0, num_candidates) ==
    IF idx0 >= Len(ranking) THEN points
    ELSE AwardPoints(DictAdd(points, ranking[idx0 + 1], num_candidates - idx0),
                     ranking, idx0 + 1, num_candidates)

\* the points loop of _ranked_choice_vote over all rankings
RECURSIVE RankedPoints(_, _, _)
RankedPoints(points, rankings, num_candidates) ==
    IF rankings = <<>> THEN points
    ELSE RankedPoints(AwardPoints(points, Head(rankings), 0, num_candidates),
                      Tail(rankings), num_candidates)

\* VotingSystem.get_loser
get_loser(result) ==
    IF result.method \in {"single-choice", "ranked-choice"}
    THEN IF result.tally = <<>> THEN EMPTY_NAME ELSE MinKey(result.tally)
    ELSE EMPTY_NAME

\* VotingSystem.get_winner
get_winner(result) ==
    IF result.method \in {"single-choice", "ranked-choice"}
    THEN IF result.tally = <<>> THEN EMPTY_NAME ELSE MaxKey(result.tally)
    ELSE EMPTY_NAME

(***************************************************************************)
(* EvolutionManager (evolution.py).                                        *)
(***************************************************************************)
MUTATION_RATE_PERCENT == 30
\* config.MUTATION_TRAITS, cut to its first entry
MUTATION_TRAITS == <<"more analytical">>
\* the vocabularies of _generate_evolved_name, cut to their first entries
evolution_suffixes == {"Evolved"}
adjectives == {"Adaptive"}
nouns == {"Thinker"}

\* the position of the first agent named loser_name, 0 when there is none
FirstNamed(objs_, agents_, name) ==
    IF \E i \in DOMAIN agents_ : objs_[agents_[i]].name = name
    THEN CHOOSE i \in DOMAIN agents_ :
            /\ objs_[agents_[i]].name = name
            /\ \A j \in 1..(i - 1) : objs_[agents_[j]].name # name
    ELSE 0

\* list.pop(i)
Pop(seq, i) == SubSeq(seq, 1, i - 1) \o SubSeq(seq, i + 1, Len(seq))

\* an elimination that drops every agent of the name
RECURSIVE WithoutNamed(_, _, _)
WithoutNamed(objs_, agents_, name) ==
    IF agents_ = <<>> THEN <<>>
    ELSE (IF objs_[Head(agents_)].name = name THEN <<>> ELSE <<Head(agents_)>>)
         \o WithoutNamed(objs_, Tail(agents_), name)
eliminate_agent_AllNamed(objs_, agents_, history, name, r) ==
    LET i == FirstNamed(objs_, agents_, name)
    IN  [agents |-> WithoutNamed(objs_, agents_, name),
         eliminated |-> IF i = 0 THEN 0 ELSE agents_[i], history |-> history]

\* an elimination that writes a record also when it found no agent
eliminate_agent_RecordsMiss(objs_, agents_, history, name, r) ==
    LET i == FirstNamed(objs_, agents_, name)
    IN  IF i = 0
        THEN [agents |-> agents_, eliminated |-> 0,
              history |-> Append(history, [round |-> r, agent_name |-> name])]
        ELSE [agents |-> Pop(agents_, i), eliminated |-> agents_[i],
              history |-> Append(history,
                  [round |-> r, agent_name |-> objs_[agents_[i]].name,
                   generation |-> objs_[agents_[i]].generation,
                   parent |-> objs_[agents_[i]].parent_name,
                   rounds_survived |-> objs_[agents_[i]].rounds_survived,
                   votes_received |-> objs_[agents_[i]].votes_received,
                   answers_given |-> objs_[agents_[i]].answers_given])]

\* EvolutionManager.eliminate_agent: the population left, the object removed
\* (0: None) and the elimination history
eliminate_agent(objs_, agents_, history, name, r) ==
    LET i == FirstNamed(objs_, agents_, name)
    IN  IF i = 0
        THEN [agents |-> agents_, eliminated |-> 0, history |-> history]
        ELSE [agents |-> Pop(agents_, i), eliminated |-> agents_[i],
              history |-> Append(history,
                  [round |-> r, agent_name |-> objs_[agents_[i]].name,
                   generation |-> objs_[agents_[i]].generation,
                   parent |-> objs_[agents_[i]].parent_name,
                   rounds_survived |-> objs_[agents_[i]].rounds_survived,
                   votes_received |-> objs_[agents_[i]].votes_received,
                   answers_given |-> objs_[agents_[i]].answers_given])]

\* weights without the one added to each counter
ParentWeights_NoOffset(objs_, agents_) ==
    LET weights == [i \in DOMAIN agents_ |-> objs_[agents_[i]].votes_received]
    IN  IF Cardinality({weights[i] : i \in DOMAIN agents_}) = 1
        THEN [i \in DOMAIN agents_ |-> objs_[agents_[i]].rounds_survived]
        ELSE weights

\* the weights of _select_parent
ParentWeights(objs_, agents_) ==
    LET weights == [i \in DOMAIN agents_ |-> objs_[agents_[i]].votes_received + 1]
    IN  IF Cardinality({weights[i] : i \in DOMAIN agents_}) = 1
        THEN [i \in DOMAIN agents_ |-> objs_[agents_[i]].rounds_survived + 1]
        ELSE weights

\* EvolutionManager._select_parent: the agents random.choices can return
select_parent(objs_, agents_) ==
    {agents_[i] : i \in {j \in DOMAIN agents_ : ParentWeights(objs_, agents_)[j] > 0}}

\* random.sample(traits, k): the orderings of k entries of traits
Samples(traits, k) ==
    {[i \in 1..k |-> traits[p[i]]] :
        p \in {q \in [1..k -> DOMAIN traits] :
                 \A a, b \in 1..k : a # b => q[a] # q[b]}}

Min2(a, b) == IF a < b THEN a ELSE b

REFINED == <<"You are a refined version of your predecessor, maintaining their core philosophy.">>
EVOLVED_TRAITS == <<"Evolved traits: You have evolved to be">>
INHERIT == <<"You inherit your parent's core values but express them through these new traits.">>

\* a child that takes its parent's description as it is when it does not mutate
evolve_personality_InheritsAsIs(personality_prompt, rate_percent, traits) ==
    {personality_prompt \o EVOLVED_TRAITS \o selected \o INHERIT :
        selected \in UNION {Samples(traits, Min2(n, Len(traits))) :
                              n \in IF rate_percent > 0 THEN 1..3 ELSE {}}}
    \cup
    (IF rate_percent < 100 THEN {personality_prompt} ELSE {})

\* EvolutionManager._evolve_personality: the descriptions it can return
evolve_personality(personality_prompt, rate_percent, traits) ==
    {personality_prompt \o EVOLVED_TRAITS \o selected \o INHERIT :
        selected \in UNION {Samples(traits, Min2(n, Len(traits))) :
                              n \in IF rate_percent > 0 THEN 1..3 ELSE {}}}
    \cup
    (IF rate_percent < 100 THEN {personality_prompt \o REFINED} ELSE {})

\* EvolutionManager._generate_evolved_name with no base_name: the names it can return
generate_evolved_name(parent_name) ==
    {parent_name \o <<" ", suffix>> : suffix \in evolution_suffixes}
    \cup
    {<<"The", " ", adj, " ", noun>> : adj \in adjectives, noun \in nouns}

\* a child that takes over its parent's generation
evolved_agent_SameGeneration(parent, new_name, new_personality, r) ==
    Agent(new_name, new_personality, parent.generation, parent.name, r)

\* a child that carries its own name as the name of its parent
evolved_agent_OwnParent(parent, new_name, new_personality, r) ==
    Agent(new_name, new_personality, parent.generation + 1, new_name, r)

\* the Agent create_evolved_agent constructs
evolved_agent(parent, new_name, new_personality, r) ==
    Agent(new_name, new_personality, parent.generation + 1, parent.name, r)

\* what create_evolved_agent does once it has a parent, a description and a name
Created(objs_, history, parent, new_name, new_personality, r) ==
    [raised |-> FALSE,
     objs |-> Append(objs_, evolved_agent(objs_[parent], new_name, new_personality, r)),
     history |-> Append(history,
                    [round |-> r, agent_name |-> new_name,
                     generation |-> objs_[parent].generation + 1,
                     parent |-> objs_[parent].name]),
     parent |-> parent, spawned |-> Len(objs_) + 1]

\* the outcomes of a parent
CreatedOf(objs_, history, parent, r) ==
    UNION {{Created(objs_, history, parent, new_name, new_personality, r) :
               new_name \in generate_evolved_name(objs_[parent].name)} :
           new_personality \in evolve_personality(objs_[parent].personality_prompt,
                                   MUTATION_RATE_PERCENT, MUTATION_TRAITS)}

\* a creation that writes its record before it looks at the population
create_evolved_agent_RecordsFirst(objs_, agents_, history, r) ==
    IF agents_ = <<>>
    THEN {[raised |-> TRUE, objs |-> objs_,
           history |-> Append(history, [round |-> r]), parent |-> 0, spawned |-> 0]}
    ELSE UNION {CreatedOf(objs_, history, parent, r) :
                   parent \in select_parent(objs_, agents_)}

\* EvolutionManager.create_evolved_agent: its outcomes, each the objects, the
\* creation history and the identity of the agent returned, or, raised, the
\* ValueError of an empty population
create_evolved_agent(objs_, agents_, history, r) ==
    IF agents_ = <<>>
    THEN {[raised |-> TRUE, objs |-> objs_, history |-> history, parent |-> 0,
           spawned |-> 0]}
    ELSE UNION {CreatedOf(objs_, history, parent, r) :
                   parent \in select_parent(objs_, agents_)}

\* list(reversed(q))
Reverse(q) == [i \in DOMAIN q |-> q[Len(q) + 1 - i]]

\* the while loop of get_lineage from the agent current on; the loop is
\* deterministic in current, so it never ends once an agent comes up again
RECURSIVE LineageWalk(_, _, _, _, _)
LineageWalk(objs_, all_history, lineage, current, seen) ==
    IF objs_[current].parent_name = NoParent
    THEN [returns |-> TRUE, lineage |-> lineage]
    ELSE LET i == FirstNamed(objs_, all_history, objs_[current].parent_name)
             appended == Append(lineage, objs_[current].parent_name)
         IN  IF i = 0 THEN [returns |-> TRUE, lineage |-> appended]
             ELSE IF all_history[i] \in seen THEN [returns |-> FALSE, lineage |-> <<>>]
             ELSE LineageWalk(objs_, all_history, appended, all_history[i],
                              seen \cup {all_history[i]})

\* a lineage that is returned in the order of the walk, the agent first
get_lineage_NewestFirst(objs_, agent, all_history) ==
    LineageWalk(objs_, all_history, <<objs_[agent].name>>, agent, {agent})

\* EvolutionManager.get_lineage: whether it returns, and the list it returns
get_lineage(objs_, agent, all_history) ==
    LET walk == LineageWalk(objs_, all_history, <<objs_[agent].name>>, agent, {agent})
    IN  [returns |-> walk.returns, lineage |-> Reverse(walk.lineage)]

(***************************************************************************)
(* HungerGamesSimulation (simulation.py).                                  *)
(***************************************************************************)
\* _get_default_personalities, cut to MaxAgents entries
SeedWords == <<"Philosopher", "Scientist", "Artist", "Pragmatist", "Optimist">>
Seed(i) == [name |-> <<"The", " ", SeedWords[i]>>, personality |-> <<SeedWords[i]>>]

\* the padding loop of initialize_agents
RECURSIVE PadPersonalities(_, _)
PadPersonalities(list, n) ==
    IF Len(list) < n
    THEN PadPersonalities(Append(list, list[(Len(list) % Len(list)) + 1]), n)
    ELSE list

\* the founders initialize_agents creates
Founders(list, n) ==
    [i \in 1..n |-> Agent(PadPersonalities(list, n)[i].name,
                          PadPersonalities(list, n)[i].personality, 0, NoParent, 0)]

NoResult == [method |-> "none", round |-> 0, tally |-> <<>>, vote_details |-> <<>>,
             total_votes |-> 0]
\* a result as the model keeps it in the vote history: its method, round and
\* number of voters
Summary(result) ==
    [method |-> result.method, round |-> result.round,
     total_votes |-> result.total_votes]
NoLast == [eliminated |-> 0, parent |-> 0, spawned |-> 0]

\* SimulationLogger.log_round: of a round's record, the names of the agents
\* active at its end and what save_csv reads; the
\* result of a plurality vote has its tally under "votes", the result of a
\* ranked vote has no "votes"
log_round(r, result, eliminated_agent, new_agent, current_agents) ==
    [round_number |-> r, eliminated_agent |-> eliminated_agent, new_agent |-> new_agent,
     surviving_agents |-> current_agents,
     agent_count |-> Len(current_agents),
     votes |-> IF result.method = "single-choice" THEN DictKeys(result.tally) ELSE {}]

\* the columns of the row save_csv builds of a round's record
CsvColumns(round_data) ==
    {<<"Round">>, <<"Question">>, <<"Eliminated">>, <<"New Agent">>, <<"Agent Count">>}
    \cup {agent \o <<"_votes">> : agent \in round_data.votes}

\* SimulationLogger.save_csv returns: csv.DictWriter takes its fieldnames from
\* the first row and raises ValueError on a row with a column outside them
save_csv_returns(rounds) ==
    \A i \in DOMAIN rounds : CsvColumns(rounds[i]) \subseteq CsvColumns(rounds[1])
\* run_simulation has not returned
NoReturnYet == << <<"returned", FALSE>> >>

\* EvolutionManager.get_generation_stats; the average is kept as <<sum, count>>
RECURSIVE SumSeq(_)
SumSeq(q) == IF q = <<>> THEN 0 ELSE Head(q) + SumSeq(Tail(q))
get_generation_stats(objs_, agents_) ==
    LET generations == [i \in DOMAIN agents_ |-> objs_[agents_[i]].generation]
        values == {generations[i] : i \in DOMAIN generations}
    IN  [average_generation |-> <<SumSeq(generations), Len(generations)>>,
         max_generation |-> IF values = {} THEN 0
                            ELSE CHOOSE g \in values : \A h \in values : h <= g,
         min_generation |-> IF values = {} THEN 0
                            ELSE CHOOSE g \in values : \A h \in values : g <= h,
         generation_diversity |-> Cardinality(values)]

\* SimulationLogger.log_agent: an entry of the same name is replaced in place
log_agent(objs_, logged, agent) ==
    LET existing == {i \in DOMAIN logged : objs_[logged[i]].name = objs_[agent].name}
    IN  IF existing = {}
        THEN Append(logged, agent)
        ELSE [logged EXCEPT ![CHOOSE i \in existing : \A j \in existing : i <= j] = agent]

\* log_agent called on each of a list of agents in turn
RECURSIVE LogAgents(_, _, _)
LogAgents(objs_, logged, list) ==
    IF list = <<>> THEN logged
    ELSE LogAgents(objs_, log_agent(objs_, logged, Head(list)), Tail(list))

\* sorted(self.agents, key=votes_received, reverse=True) one agent at a time:
\* the sort is stable, agents of equal votes keep their order
RECURSIVE SortedByVotes(_, _, _)
SortedByVotes(objs_, sorted, rest) ==
    IF rest = <<>> THEN sorted
    ELSE LET a == Head(rest)
             before == {i \in DOMAIN sorted :
                          objs_[sorted[i]].votes_received >= objs_[a].votes_received}
             k == Cardinality(before)
         IN  SortedByVotes(objs_,
                           SubSeq(sorted, 1, k) \o <<a>> \o SubSeq(sorted, k + 1, Len(sorted)),
                           Tail(rest))

\* a listing of the survivors in the order of the population
final_survivors_PopulationOrder(objs_, agents_) == agents_

\* the agents finalize prints under "FINAL SURVIVORS", in the order printed
final_survivors(objs_, agents_) == SortedByVotes(objs_, <<>>, agents_)

\* the dict finalize returns, the names of the saved files apart
final_result(objs_, agents_, history, round, requests) ==
    << <<"final_agents", [i \in DOMAIN agents_ |-> objs_[agents_[i]]]>>,
       <<"statistics", [total_rounds |-> round,
                        total_agents_created |-> Len(history),
                        surviving_agents |-> Len(agents_),
                        llm_stats |-> [total_requests |-> requests],
                        generation_stats |-> get_generation_stats(objs_, agents_)]>> >>

Methods == {"single-choice", "ranked-choice", "approval"}

Init ==
    /\ num_agents \in 1..MaxAgents
    /\ num_rounds \in 1..MaxRounds
    /\ method \in Methods
    /\ allow_self_voting = ALLOW_SELF_VOTING
    /\ personalities \in {[i \in 1..n |-> Seed(i)] : n \in 0..MaxAgents}
    /\ objs = <<>>
    /\ agents = <<>>
    /\ all_agents_history = <<>>
    /\ current_round = 0
    /\ total_requests = 0
    /\ vote_history = <<>>
    /\ elimination_history = <<>>
    /\ creation_history = <<>>
    /\ rounds_log = <<>>
    /\ logged_agents = <<>>
    /\ survivors_printed = <<>>
    /\ simulation_status = IdleStatus
    /\ simulation_results = None
    /\ current_simulation = 0
    /\ background_tasks = <<>>
    /\ pc = "idle"
    /\ round_num = 0
    /\ idx = 0
    /\ answers = <<>>
    /\ votes = <<>>
    /\ vote_details = <<>>
    /\ vote_results = NoResult
    /\ loser_name = EMPTY_NAME
    /\ agents_before = <<>>
    /\ last = NoLast
    /\ arg = <<>>
    /\ ret = NoReturnYet

unit_vars == <<arg, ret>>
config_vars == <<num_agents, num_rounds, method, allow_self_voting, personalities>>
round_locals == <<round_num, idx, answers, votes, vote_details, vote_results,
                  loser_name, agents_before, last>>
histories == <<vote_history, elimination_history, creation_history>>

\* a run that creates its agents before it probes the generator
RunSimulation_InitializeFirst ==
    /\ pc = "idle"
    /\ Len(personalities) > 0
    /\ objs' = objs \o Founders(personalities, num_agents)
    /\ agents' = agents \o [i \in 1..num_agents |-> Len(objs) + i]
    /\ all_agents_history' = all_agents_history \o [i \in 1..num_agents |-> Len(objs) + i]
    /\ logged_agents' = LogAgents(objs', logged_agents, [i \in 1..num_agents |-> Len(objs) + i])
    /\ \E connected \in BOOLEAN :
        IF ~connected THEN pc' = "aborted" /\ ret' = <<>>
        ELSE pc' = "loop" /\ ret' = ret
    /\ UNCHANGED <<server_vars, config_vars, rounds_log, survivors_printed, arg, current_round,
                   total_requests, histories, round_locals>>

\* run_simulation up to its loop: the reachability probe, then initialize_agents
RunSimulation ==
    /\ pc = "idle"
    /\ \E connected \in BOOLEAN :
        IF ~connected
        THEN \* return {}
             /\ pc' = "aborted"
             /\ ret' = <<>>
             /\ UNCHANGED <<objs, agents, all_agents_history, logged_agents>>
        ELSE IF Len(personalities) = 0
        THEN \* len(personalities) % len(personalities) divides by zero
             /\ pc' = "crashed"
             /\ UNCHANGED <<objs, agents, all_agents_history, logged_agents, ret>>
        ELSE /\ objs' = objs \o Founders(personalities, num_agents)
             /\ ret' = ret
             /\ agents' = agents \o [i \in 1..num_agents |-> Len(objs) + i]
             /\ all_agents_history' =
                    all_agents_history \o [i \in 1..num_agents |-> Len(objs) + i]
             /\ logged_agents' = LogAgents(objs', logged_agents,
                                           [i \in 1..num_agents |-> Len(objs) + i])
             /\ pc' = "loop"
    /\ UNCHANGED <<server_vars, config_vars, rounds_log, survivors_printed, arg, current_round,
                   total_requests, histories, round_locals>>

\* a round that is entered without counting it as survived
RunRoundEnter_CountsNothing ==
    /\ pc = "loop"
    /\ current_round < num_rounds
    /\ round_num' = current_round + 1
    /\ agents_before' = agents
    /\ objs' = [o \in DOMAIN objs |->
                  IF \E i \in DOMAIN agents : agents[i] = o
                  THEN objs[o]
                  ELSE objs[o]]
    /\ answers' = <<>>
    /\ idx' = 1
    /\ pc' = "answer"
    /\ UNCHANGED <<server_vars, config_vars, rounds_log, logged_agents, survivors_printed, unit_vars, agents, all_agents_history, current_round,
                   total_requests, histories, votes, vote_details, vote_results,
                   loser_name, last>>

\* run_simulation's loop calls run_round, which first counts a round survived
RunRoundEnter ==
    /\ pc = "loop"
    /\ current_round < num_rounds
    /\ round_num' = current_round + 1
    /\ agents_before' = agents
    /\ objs' = [o \in DOMAIN objs |->
                  IF \E i \in DOMAIN agents : agents[i] = o
                  THEN [objs[o] EXCEPT !.rounds_survived = @ + 1]
                  ELSE objs[o]]
    /\ answers' = <<>>
    /\ idx' = 1
    /\ pc' = "answer"
    /\ UNCHANGED <<server_vars, config_vars, rounds_log, logged_agents, survivors_printed, unit_vars, agents, all_agents_history, current_round,
                   total_requests, histories, votes, vote_details, vote_results,
                   loser_name, last>>

\* the texts the generator can return for an answer
AnswerResponses == {<<"answer">>, ERROR_SENTINEL}

\* an answer loop that records no answer for an agent whose call failed
GenerateAnswer_SkipFailed ==
    /\ pc = "answer"
    /\ \E answer \in AnswerResponses :
        /\ objs' = [objs EXCEPT ![agents[idx]] = AgentAfterAnswer(@, answer, round_num)]
        /\ answers' = IF answer = ERROR_SENTINEL THEN answers
                       ELSE DictSet(answers, objs[agents[idx]].name, answer)
    /\ total_requests' = total_requests + 1
    /\ IF idx < Len(agents)
       THEN idx' = idx + 1 /\ pc' = "answer"
       ELSE idx' = 1 /\ pc' = "conduct"
    /\ UNCHANGED <<server_vars, config_vars, rounds_log, logged_agents, survivors_printed, unit_vars, agents, all_agents_history, current_round, histories,
                   round_num, votes, vote_details, vote_results, loser_name,
                   agents_before, last>>

\* one turn of run_round's answer loop: Agent.generate_answer
GenerateAnswer ==
    /\ pc = "answer"
    /\ \E answer \in AnswerResponses :
        /\ objs' = [objs EXCEPT ![agents[idx]] = AgentAfterAnswer(@, answer, round_num)]
        /\ answers' = DictSet(answers, objs[agents[idx]].name, answer)
    /\ total_requests' = total_requests + 1
    /\ IF idx < Len(agents)
       THEN idx' = idx + 1 /\ pc' = "answer"
       ELSE idx' = 1 /\ pc' = "conduct"
    /\ UNCHANGED <<server_vars, config_vars, rounds_log, logged_agents, survivors_printed, unit_vars, agents, all_agents_history, current_round, histories,
                   round_num, votes, vote_details, vote_results, loser_name,
                   agents_before, last>>

\* a dispatch that takes any unrecognized method for plurality
ConductVote_DefaultsToPlurality ==
    /\ pc = "conduct"
    /\ pc' = CASE method = "ranked-choice" -> "vote_ranked"
               [] OTHER -> "vote_single"
    /\ votes' = <<>>
    /\ vote_details' = <<>>
    /\ UNCHANGED <<server_vars, config_vars, rounds_log, logged_agents, survivors_printed, unit_vars, objs, agents, all_agents_history,
                   current_round, total_requests, histories, round_num, idx, answers,
                   vote_results, loser_name, agents_before, last>>

\* VotingSystem.conduct_vote: the dispatch on the method
ConductVote ==
    /\ pc = "conduct"
    /\ pc' = CASE method = "single-choice" -> "vote_single"
               [] method = "ranked-choice" -> "vote_ranked"
               [] OTHER -> "crashed"
    /\ votes' = <<>>
    /\ vote_details' = <<>>
    /\ UNCHANGED <<server_vars, config_vars, rounds_log, logged_agents, survivors_printed, unit_vars, objs, agents, all_agents_history, current_round,
                   total_requests, histories, round_num, idx, answers, vote_results,
                   loser_name, agents_before, last>>

\* the texts the generator can return for a vote over the named candidates
VoteResponses(names) == names \cup {ERROR_SENTINEL}

\* one turn of _single_choice_vote's voting loop
SingleChoiceVote ==
    /\ pc = "vote_single"
    /\ \E response \in VoteResponses(DictKeys(answers)) :
        \E outcome \in vote_on_answers(objs[agents[idx]].name, answers,
                                       allow_self_voting, response) :
            /\ objs' = [objs EXCEPT ![agents[idx]] = AgentAfterVote(@, outcome, round_num)]
            /\ total_requests' = total_requests + outcome.calls
            /\ votes' = DictAdd(votes, outcome.voted_for, 1)
            /\ vote_details' = Append(vote_details,
                   [voter |-> objs[agents[idx]].name, voted_for |-> outcome.voted_for,
                    justification |-> outcome.justification])
    /\ IF idx < Len(agents)
       THEN idx' = idx + 1 /\ pc' = "vote_single"
       ELSE idx' = 1 /\ pc' = "tally_single"
    /\ UNCHANGED <<server_vars, config_vars, rounds_log, logged_agents, survivors_printed, unit_vars, agents, all_agents_history, current_round, histories,
                   round_num, answers, vote_results, loser_name, agents_before, last>>

\* a numbered list of the names of ranking, one per line
Digits == <<"1", "2", "3", "4", "5", "6", "7", "8", "9">>
RECURSIVE NumberedList(_, _)
NumberedList(ranking, n) ==
    IF ranking = <<>> THEN <<>>
    ELSE (IF n > 1 THEN <<"\n">> ELSE <<>>) \o <<Digits[n], ".", " ">> \o Head(ranking)
         \o NumberedList(Tail(ranking), n + 1)

\* the texts the generator can return for a ranking of the named candidates
RankingResponses(names) ==
    {NumberedList(r, 1) : r \in Arrangements(names, Cardinality(names))}
    \cup {NumberedList(<<n>>, 1) : n \in names}
    \cup {ERROR_SENTINEL}

\* one turn of _ranked_choice_vote's ranking loop
RankedChoiceVote ==
    /\ pc = "vote_ranked"
    /\ \E response \in RankingResponses(DictKeys(answers)) :
        \E outcome \in get_agent_rankings(objs[agents[idx]].name, answers,
                                          allow_self_voting, response) :
            /\ total_requests' = total_requests + outcome.calls
            /\ vote_details' = Append(vote_details,
                   [voter |-> objs[agents[idx]].name, rankings |-> outcome.ranked_list,
                    justification |-> outcome.justification])
    /\ IF idx < Len(agents)
       THEN idx' = idx + 1 /\ pc' = "vote_ranked"
       ELSE idx' = 1 /\ pc' = "tally_ranked"
    /\ UNCHANGED <<server_vars, config_vars, rounds_log, logged_agents, survivors_printed, unit_vars, objs, agents, all_agents_history, current_round,
                   histories, round_num, answers, votes, vote_results, loser_name,
                   agents_before, last>>

\* the rest of _ranked_choice_vote: the points of the rankings, the result to the
\* vote history
RankedChoiceTally ==
    /\ pc = "tally_ranked"
    /\ votes' = RankedPoints(<<>>, [i \in DOMAIN vote_details |-> vote_details[i].rankings],
                             Len(answers))
    /\ vote_results' = [method |-> "ranked-choice", round |-> round_num, tally |-> votes',
                        vote_details |-> vote_details, total_votes |-> Len(agents)]
    /\ vote_history' = Append(vote_history, Summary(vote_results'))
    /\ pc' = "eliminate"
    /\ UNCHANGED <<server_vars, config_vars, rounds_log, logged_agents, survivors_printed, unit_vars, objs, agents, all_agents_history, current_round,
                   total_requests, elimination_history, creation_history, round_num,
                   idx, answers, vote_details, loser_name, agents_before, last>>

\* a tally that sets votes_received to the count of the round
SingleChoiceTally_SetsToTally ==
    /\ pc = "tally_single"
    /\ objs' = [o \in DOMAIN objs |->
                  IF (\E i \in DOMAIN agents : agents[i] = o) /\ DictHas(votes, objs[o].name)
                  THEN [objs[o] EXCEPT !.votes_received = DictGet(votes, objs[o].name)]
                  ELSE objs[o]]
    /\ vote_results' = [method |-> "single-choice", round |-> round_num, tally |-> votes,
                        vote_details |-> vote_details, total_votes |-> Len(agents)]
    /\ vote_history' = Append(vote_history, Summary(vote_results'))
    /\ pc' = "eliminate"
    /\ UNCHANGED <<server_vars, config_vars, rounds_log, logged_agents, survivors_printed, unit_vars, agents, all_agents_history, current_round,
                   total_requests, elimination_history, creation_history, round_num,
                   idx, answers, votes, vote_details, loser_name, agents_before, last>>

\* the rest of _single_choice_vote: the vote counts go to the agents, the result
\* to the vote history
SingleChoiceTally ==
    /\ pc = "tally_single"
    /\ objs' = [o \in DOMAIN objs |->
                  IF (\E i \in DOMAIN agents : agents[i] = o) /\ DictHas(votes, objs[o].name)
                  THEN [objs[o] EXCEPT !.votes_received = @ + DictGet(votes, objs[o].name)]
                  ELSE objs[o]]
    /\ vote_results' = [method |-> "single-choice", round |-> round_num, tally |-> votes,
                        vote_details |-> vote_details, total_votes |-> Len(agents)]
    /\ vote_history' = Append(vote_history, Summary(vote_results'))
    /\ pc' = "eliminate"
    /\ UNCHANGED <<server_vars, config_vars, rounds_log, logged_agents, survivors_printed, unit_vars, agents, all_agents_history, current_round,
                   total_requests, elimination_history, creation_history, round_num,
                   idx, answers, votes, vote_details, loser_name, agents_before, last>>

\* run_round, phase 3: get_loser and eliminate_agent
Eliminate ==
    /\ pc = "eliminate"
    /\ loser_name' = get_loser(vote_results)
    /\ LET e == eliminate_agent(objs, agents, elimination_history, loser_name', round_num)
       IN  /\ agents' = e.agents
           /\ elimination_history' = e.history
           /\ last' = [NoLast EXCEPT !.eliminated = e.eliminated]
    /\ pc' = "evolve"
    /\ UNCHANGED <<server_vars, config_vars, rounds_log, logged_agents, survivors_printed, unit_vars, objs, all_agents_history, current_round, total_requests,
                   vote_history, creation_history, round_num, idx, answers, votes,
                   vote_details, vote_results, agents_before>>

\* run_round, phase 4: create_evolved_agent, the new agent joins the population
\* and the roster, and run_simulation's loop records the round as run
Evolve ==
    /\ pc = "evolve"
    /\ \E c \in create_evolved_agent(objs, agents, creation_history, round_num) :
        IF c.raised
        THEN \* ValueError("Cannot create evolved agent with no existing agents")
             /\ pc' = "crashed"
             /\ UNCHANGED <<objs, agents, all_agents_history, creation_history, last,
                            rounds_log, logged_agents, current_round, idx, answers, votes, vote_details,
                            vote_results, loser_name>>
        ELSE /\ objs' = c.objs
             /\ creation_history' = c.history
             /\ agents' = Append(agents, c.spawned)
             /\ all_agents_history' = Append(all_agents_history, c.spawned)
             /\ logged_agents' = log_agent(c.objs, logged_agents, c.spawned)
             /\ last' = [last EXCEPT !.parent = c.parent, !.spawned = c.spawned]
             /\ rounds_log' = Append(rounds_log,
                    log_round(round_num, vote_results, loser_name,
                              c.objs[c.spawned].name,
                              [i \in DOMAIN agents' |-> c.objs[agents'[i]].name]))
             \* run_round returns, its locals are gone
             /\ current_round' = round_num
             /\ idx' = 0
             /\ answers' = <<>>
             /\ votes' = <<>>
             /\ vote_details' = <<>>
             /\ vote_results' = NoResult
             /\ loser_name' = EMPTY_NAME
             /\ pc' = "loop"
    /\ UNCHANGED <<server_vars, config_vars, unit_vars, total_requests, vote_history, elimination_history,
                   round_num, agents_before, survivors_printed>>

\* run_simulation's loop is over: finalize
Finalize ==
    /\ pc = "loop"
    /\ current_round >= num_rounds
    /\ survivors_printed' = final_survivors(objs, agents)
    /\ IF save_csv_returns(rounds_log)
       THEN /\ pc' = "done"
            /\ ret' = final_result(objs, agents, all_agents_history, current_round,
                                   total_requests)
       ELSE \* logger.save_all() raises ValueError
            /\ pc' = "finalize_crashed"
            /\ ret' = ret
    /\ UNCHANGED <<server_vars, config_vars, rounds_log, logged_agents, arg, objs, agents, all_agents_history, current_round,
                   total_requests, histories, round_locals>>

Next ==
    \/ RunSimulation
    \/ RunRoundEnter
    \/ GenerateAnswer
    \/ ConductVote
    \/ SingleChoiceVote
    \/ SingleChoiceTally
    \/ RankedChoiceVote
    \/ RankedChoiceTally
    \/ Eliminate
    \/ Evolve
    \/ Finalize

Spec == Init /\ [][Next]_vars

(***************************************************************************)
(* The operations called on their own, on arguments drawn from bounded     *)
(* sets.  A called operation leaves the simulation as constructed.         *)
(***************************************************************************)
UnitNameList == << <<"A">>, <<"B">>, <<"C">> >>
UnitNames == {UnitNameList[i] : i \in DOMAIN UnitNameList}
\* the texts of at most n tokens over the set of tokens T
Texts(T, n) == UNION {[1..k -> T] : k \in 0..n}
\* the dicts of answers whose keys are names of S, in every insertion order
AnswerDicts(S) ==
    {[i \in DOMAIN q |-> <<q[i], <<"answer">>>>] :
        q \in UNION {Arrangements(S, k) : k \in 0..Cardinality(S)}}

Constructed ==
    /\ num_agents = 1
    /\ num_rounds = 1
    /\ method = "single-choice"
    /\ allow_self_voting = ALLOW_SELF_VOTING
    /\ personalities = <<>>
    /\ all_agents_history = <<>>
    /\ current_round = 0
    /\ total_requests = 0
    /\ vote_history = <<>>
    /\ elimination_history = <<>>
    /\ creation_history = <<>>
    /\ rounds_log = <<>>
    /\ logged_agents = <<>>
    /\ survivors_printed = <<>>
    /\ simulation_status = IdleStatus
    /\ simulation_results = None
    /\ current_simulation = 0
    /\ background_tasks = <<>>
    /\ pc = "call"
    /\ round_num = 1
    /\ idx = 0
    /\ answers = <<>>
    /\ votes = <<>>
    /\ vote_details = <<>>
    /\ vote_results = NoResult
    /\ loser_name = EMPTY_NAME
    /\ agents_before = <<>>
    /\ last = NoLast
    /\ ret = <<>>

called_frame == <<server_vars, rounds_log, logged_agents, survivors_printed, num_agents, num_rounds, method, allow_self_voting, personalities, all_agents_history,
                  current_round, elimination_history, creation_history, round_num,
                  idx, answers, votes, vote_details, vote_results, loser_name,
                  agents_before, last>>

\* Agent.vote_on_answers, called on an agent of its own
VoteTokens == {"A", "B", "x", " ", "\n"}
InitVote ==
    /\ Constructed
    /\ arg \in [self_name : {<<"A">>, <<"B">>},
                answers : AnswerDicts({<<"A">>, <<"B">>}),
                allow_self_voting : BOOLEAN,
                response : Texts(VoteTokens, MaxResponseLen) \cup {ERROR_SENTINEL}]
    /\ objs = <<Agent(arg.self_name, <<"p">>, 0, NoParent, 0)>>
    /\ agents = <<1>>

CallVoteOnAnswers ==
    /\ pc = "call"
    /\ \E outcome \in vote_on_answers(arg.self_name, arg.answers,
                                      arg.allow_self_voting, arg.response) :
        /\ ret' = outcome
        /\ objs' = [objs EXCEPT ![1] = AgentAfterVote(@, outcome, round_num)]
        /\ total_requests' = total_requests + outcome.calls
    /\ pc' = "returned"
    /\ UNCHANGED <<called_frame, agents, vote_history, arg>>

SpecVote == InitVote /\ [][CallVoteOnAnswers]_vars

\* VotingSystem._single_choice_vote, called on a population of its own; the
\* answers are those run_round collects from that population
RECURSIVE AnswersOf(_)
AnswersOf(names) ==
    IF names = <<>> THEN <<>>
    ELSE DictSet(AnswersOf(SubSeq(names, 1, Len(names) - 1)), names[Len(names)],
                 <<"answer">>)
InitPlurality ==
    /\ num_agents = 1
    /\ num_rounds = 1
    /\ method = "single-choice"
    /\ allow_self_voting \in BOOLEAN
    /\ personalities = <<>>
    /\ \E names \in UNION {[1..n -> UnitNames] : n \in 1..MaxVoters} :
        /\ objs = [i \in DOMAIN names |-> Agent(names[i], <<"p">>, 0, NoParent, 0)]
        /\ agents = [i \in DOMAIN names |-> i]
        /\ answers = AnswersOf(names)
    /\ all_agents_history = agents
    /\ current_round = 0
    /\ total_requests = 0
    /\ vote_history = <<>>
    /\ elimination_history = <<>>
    /\ creation_history = <<>>
    /\ rounds_log = <<>>
    /\ logged_agents = <<>>
    /\ survivors_printed = <<>>
    /\ simulation_status = IdleStatus
    /\ simulation_results = None
    /\ current_simulation = 0
    /\ background_tasks = <<>>
    /\ pc = "vote_single"
    /\ round_num = 1
    /\ idx = 1
    /\ votes = <<>>
    /\ vote_details = <<>>
    /\ vote_results = NoResult
    /\ loser_name = EMPTY_NAME
    /\ agents_before = agents
    /\ last = NoLast
    /\ arg = <<>>
    /\ ret = <<>>

NextPlurality ==
    \/ SingleChoiceVote
    \/ SingleChoiceTally

SpecPlurality == InitPlurality /\ [][NextPlurality]_vars

\* Agent.add_memory, called again and again on one agent; arg is the list of the
\* entries inserted so far
InitMemory ==
    /\ Constructed
    /\ arg = <<>>
    /\ objs = <<Agent(<<"A">>, <<"p">>, 0, NoParent, 0)>>
    /\ agents = <<1>>

CallAddMemory ==
    /\ pc = "call"
    /\ Len(arg) < MaxInserts
    /\ \E memory_type \in {"answer", "vote"} :
        /\ objs' = [objs EXCEPT ![1].memory =
                       add_memory(@, memory_type, QUESTION_ANSWER, Len(arg) + 1)]
        /\ arg' = Append(arg, [type |-> memory_type, content |-> QUESTION_ANSWER,
                               round |-> Len(arg) + 1])
    /\ UNCHANGED <<called_frame, agents, vote_history, total_requests, pc, ret>>

SpecMemory == InitMemory /\ [][CallAddMemory]_vars

\* VotingSystem._ranked_choice_vote, called with one voter
RankingLines ==
    {<<"1", ".", " ">> \o n : n \in UnitNames}
    \cup {<<"-", " ">> \o n : n \in UnitNames}
    \cup {<<"2", " ">> \o n : n \in UnitNames}
    \cup {<<"x">>, <<"Justification", ":", " ", "x">>, <<>>}
RECURSIVE JoinLines(_)
JoinLines(lines) ==
    IF lines = <<>> THEN <<>>
    ELSE IF Len(lines) = 1 THEN lines[1]
    ELSE lines[1] \o <<"\n">> \o JoinLines(Tail(lines))
InitRanked ==
    /\ Constructed
    /\ arg \in [self_name : {<<"A">>, <<"B">>},
                answers : {[i \in 1..k |-> <<UnitNameList[i], <<"answer">>>>] :
                             k \in 1..3},
                allow_self_voting : BOOLEAN,
                response : {JoinLines(l) : l \in UNION {[1..k -> RankingLines] :
                                                          k \in 1..MaxLines}}
                           \cup {ERROR_SENTINEL}]
    /\ objs = <<Agent(arg.self_name, <<"p">>, 0, NoParent, 0)>>
    /\ agents = <<1>>

CallRankedChoiceVote ==
    /\ pc = "call"
    /\ \E outcome \in get_agent_rankings(arg.self_name, arg.answers,
                                         arg.allow_self_voting, arg.response) :
        /\ ret' = [method |-> "ranked-choice", round |-> round_num,
                   tally |-> RankedPoints(<<>>, <<outcome.ranked_list>>, Len(arg.answers)),
                   vote_details |-> <<[voter |-> arg.self_name,
                                       rankings |-> outcome.ranked_list,
                                       justification |-> outcome.justification]>>,
                   total_votes |-> Len(agents)]
        /\ total_requests' = total_requests + outcome.calls
    /\ vote_history' = Append(vote_history, Summary(ret'))
    /\ pc' = "returned"
    /\ UNCHANGED <<called_frame, objs, agents, arg>>

SpecRanked == InitRanked /\ [][CallRankedChoiceVote]_vars

\* random.random(), in hundredths: 0.00 .. 0.99
RandomUnit == 0..99

\* ", ".join(selected)
RECURSIVE JoinComma(_)
JoinComma(selected) ==
    IF selected = <<>> THEN <<>>
    ELSE IF Len(selected) = 1 THEN <<selected[1]>>
    ELSE <<selected[1], ", ">> \o JoinComma(Tail(selected))

EVOLVED_NOW == <<"\n", "\n", "Evolved traits: You are now", " ">>
COMPARED == <<" ", "compared to your predecessor.">>

\* a mutation that has nothing to say when no trait was selected
mutate_SilentWithoutTraits(personality_prompt, mutation_traits, rate_percent) ==
    UNION {IF u < rate_percent
           THEN {IF selected = <<>> THEN personality_prompt
                 ELSE personality_prompt \o EVOLVED_NOW \o JoinComma(selected) \o COMPARED :
                    selected \in UNION {Samples(mutation_traits,
                                                Min2(n, Len(mutation_traits))) :
                                          n \in 1..2}}
           ELSE {personality_prompt} : u \in RandomUnit}

\* Agent.mutate: the descriptions it can return
mutate(personality_prompt, mutation_traits, rate_percent) ==
    UNION {IF u < rate_percent
           THEN {personality_prompt \o EVOLVED_NOW \o JoinComma(selected) \o COMPARED :
                    selected \in UNION {Samples(mutation_traits,
                                                Min2(n, Len(mutation_traits))) :
                                          n \in 1..2}}
           ELSE {personality_prompt} : u \in RandomUnit}

\* Agent.mutate, called on an agent of its own
PromptTokens == {"p", "\n", "Evolved traits: You are now"}
TraitPools == {<<>>, <<"bold">>, <<"calm">>, <<"bold", "calm">>, <<"calm", "bold">>}
Rates == {0, 30, 100}
InitMutate ==
    /\ Constructed
    /\ arg \in [personality_prompt : Texts(PromptTokens, MaxPromptLen),
                mutation_traits : TraitPools,
                mutation_rate : Rates]
    /\ objs = <<Agent(<<"A">>, arg.personality_prompt, 0, NoParent, 0)>>
    /\ agents = <<1>>

CallMutate ==
    /\ pc = "call"
    /\ ret' \in mutate(objs[1].personality_prompt, arg.mutation_traits, arg.mutation_rate)
    /\ pc' = "returned"
    /\ UNCHANGED <<called_frame, objs, agents, total_requests, vote_history, arg>>

SpecMutate == InitMutate /\ [][CallMutate]_vars

\* HungerGamesSimulation.initialize_agents, called with a list of its own on a
\* simulation just constructed; the padding loop appends to the list it was given
PersonalityLists == UNION {[1..n -> {Seed(1), Seed(2), Seed(3)}] : n \in 0..MaxFounders}
InitInitialize ==
    /\ num_agents \in 1..MaxFounders
    /\ num_rounds = 1
    /\ method = "single-choice"
    /\ allow_self_voting = ALLOW_SELF_VOTING
    /\ personalities \in PersonalityLists
    /\ arg = personalities
    /\ objs = <<>>
    /\ agents = <<>>
    /\ all_agents_history = <<>>
    /\ current_round = 0
    /\ total_requests = 0
    /\ vote_history = <<>>
    /\ elimination_history = <<>>
    /\ creation_history = <<>>
    /\ rounds_log = <<>>
    /\ logged_agents = <<>>
    /\ survivors_printed = <<>>
    /\ simulation_status = IdleStatus
    /\ simulation_results = None
    /\ current_simulation = 0
    /\ background_tasks = <<>>
    /\ pc = "call"
    /\ round_num = 0
    /\ idx = 0
    /\ answers = <<>>
    /\ votes = <<>>
    /\ vote_details = <<>>
    /\ vote_results = NoResult
    /\ loser_name = EMPTY_NAME
    /\ agents_before = <<>>
    /\ last = NoLast
    /\ ret = <<>>

CallInitializeAgents ==
    /\ pc = "call"
    /\ IF Len(personalities) < num_agents /\ Len(personalities) = 0
       THEN \* len(personalities) % len(personalities) divides by zero
            /\ pc' = "crashed"
            /\ UNCHANGED <<personalities, objs, agents, all_agents_history, logged_agents>>
       ELSE /\ personalities' = PadPersonalities(personalities, num_agents)
            /\ objs' = objs \o Founders(personalities, num_agents)
            /\ agents' = agents \o [i \in 1..num_agents |-> Len(objs) + i]
            /\ all_agents_history' =
                   all_agents_history \o [i \in 1..num_agents |-> Len(objs) + i]
            /\ logged_agents' = LogAgents(objs', logged_agents,
                                          [i \in 1..num_agents |-> Len(objs) + i])
            /\ pc' = "returned"
    /\ UNCHANGED <<server_vars, num_agents, num_rounds, method, allow_self_voting, current_round,
                   rounds_log, survivors_printed, total_requests, histories,
                   round_locals, unit_vars>>

SpecInitialize == InitInitialize /\ [][CallInitializeAgents]_vars

\* the state of a simulation just constructed, its sizes and population apart
Fresh ==
    /\ method = "single-choice"
    /\ allow_self_voting = ALLOW_SELF_VOTING
    /\ all_agents_history = <<>>
    /\ current_round = 0
    /\ total_requests = 0
    /\ vote_history = <<>>
    /\ elimination_history = <<>>
    /\ creation_history = <<>>
    /\ rounds_log = <<>>
    /\ logged_agents = <<>>
    /\ survivors_printed = <<>>
    /\ simulation_status = IdleStatus
    /\ simulation_results = None
    /\ current_simulation = 0
    /\ background_tasks = <<>>
    /\ round_num = 0
    /\ idx = 0
    /\ answers = <<>>
    /\ votes = <<>>
    /\ vote_details = <<>>
    /\ vote_results = NoResult
    /\ loser_name = EMPTY_NAME
    /\ agents_before = <<>>
    /\ last = NoLast
    /\ ret = <<>>

\* config.DEFAULT_QUESTIONS
DEFAULT_QUESTIONS == <<"q1", "q2", "q3", "q4", "q5", "q6", "q7", "q8">>

\* the slice list[:n]
FirstN(list, n) == SubSeq(list, 1, Min2(n, Len(list)))

\* the padding loop of run_simulation
RECURSIVE PadQuestions(_, _)
PadQuestions(questions, n) ==
    IF Len(questions) < n
    THEN PadQuestions(Append(questions, questions[(Len(questions) % Len(questions)) + 1]), n)
    ELSE questions

\* the question run_simulation's loop hands to run_round in round r
QuestionOfRound(questions, r) == questions[(r - 1) + 1]

\* run_simulation's preparation of the questions, on a list of its own (or none)
QuestionLists == UNION {[1..n -> {"q1", "q2", "q3"}] : n \in 0..MaxAsked}
InitQuestions ==
    /\ Fresh
    /\ num_agents = 1
    /\ num_rounds \in 1..MaxAsked
    /\ personalities = <<>>
    /\ arg \in [given : {TRUE}, questions : QuestionLists]
                \cup {[given |-> FALSE, questions |-> <<>>]}
    /\ objs = <<>>
    /\ agents = <<>>
    /\ pc = "call"

PrepareQuestions ==
    /\ pc = "call"
    /\ LET questions == IF arg.given THEN arg.questions
                        ELSE FirstN(DEFAULT_QUESTIONS, num_rounds)
       IN  IF Len(questions) < num_rounds /\ Len(questions) = 0
           THEN \* len(questions) % len(questions) divides by zero
                pc' = "crashed" /\ ret' = ret
           ELSE pc' = "returned" /\ ret' = PadQuestions(questions, num_rounds)
    /\ UNCHANGED <<called_frame, objs, agents, total_requests, vote_history, arg>>

SpecQuestions == InitQuestions /\ [][PrepareQuestions]_vars

\* EvolutionManager.eliminate_agent, called again and again with any name on a
\* population of its own; round_num counts the calls
PopulationNames == UNION {[1..n -> UnitNames] : n \in 0..MaxVoters}
LoserNames == UnitNames \cup {<<"D">>, EMPTY_NAME}
InitEliminate ==
    /\ Fresh
    /\ num_agents = 1
    /\ num_rounds = 1
    /\ personalities = <<>>
    /\ \E names \in PopulationNames :
        /\ objs = [i \in DOMAIN names |-> Agent(names[i], <<"p">>, 0, NoParent, 0)]
        /\ agents = [i \in DOMAIN names |-> i]
    /\ arg = <<>>
    /\ pc = "call"

CallEliminateAgent ==
    /\ pc \in {"call", "returned"}
    /\ round_num < MaxEliminations
    /\ round_num' = round_num + 1
    /\ \E loser \in LoserNames :
        LET e == eliminate_agent(objs, agents, elimination_history, loser, round_num')
        IN  /\ arg' = [agents |-> agents, loser_name |-> loser,
                       elimination_history |-> elimination_history]
            /\ agents' = e.agents
            /\ elimination_history' = e.history
            /\ ret' = <<e.eliminated>>
    /\ pc' = "returned"
    /\ UNCHANGED <<server_vars, config_vars, rounds_log, logged_agents, survivors_printed, objs, all_agents_history, current_round,
                   total_requests, vote_history, creation_history, idx, answers, votes,
                   vote_details, vote_results, loser_name, agents_before, last>>

SpecEliminate == InitEliminate /\ [][CallEliminateAgent]_vars

\* EvolutionManager.create_evolved_agent, called again and again on a population
\* of its own, the agent it returns joining the population as in run_round;
\* round_num counts the calls
InitCreate ==
    /\ Fresh
    /\ num_agents = 1
    /\ num_rounds = 1
    /\ personalities = <<>>
    /\ \E names \in PopulationNames :
        /\ objs = [i \in DOMAIN names |-> Agent(names[i], <<"p">>, 0, NoParent, 0)]
        /\ agents = [i \in DOMAIN names |-> i]
    /\ arg = <<>>
    /\ pc = "call"

CallCreateEvolvedAgent ==
    /\ pc \in {"call", "returned"}
    /\ round_num < MaxCreations
    /\ round_num' = round_num + 1
    /\ arg' = [objs |-> objs, agents |-> agents, creation_history |-> creation_history]
    /\ \E c \in create_evolved_agent(objs, agents, creation_history, round_num') :
        /\ objs' = c.objs
        /\ creation_history' = c.history
        /\ ret' = <<c.spawned>>
        /\ IF c.raised
           THEN pc' = "crashed" /\ agents' = agents
           ELSE pc' = "returned" /\ agents' = Append(agents, c.spawned)
    /\ UNCHANGED <<server_vars, config_vars, rounds_log, logged_agents, survivors_printed, all_agents_history, current_round,
                   total_requests, vote_history, elimination_history, idx, answers,
                   votes, vote_details, vote_results, loser_name, agents_before, last>>

SpecCreate == InitCreate /\ [][CallCreateEvolvedAgent]_vars

\* EvolutionManager.get_lineage, called with an agent and a roster of its own:
\* any agents of up to two names, each with no parent or a parent of a name, and
\* as the roster any of them in their order
RosterAgents ==
    {Agent(name, <<"p">>, 0, parent_name, 0) :
        name \in {<<"A">>, <<"B">>}, parent_name \in {NoParent, <<"A">>, <<"B">>}}
\* the sequences of some of 1..n, in increasing order
RECURSIVE SubSequences(_)
SubSequences(n) ==
    IF n = 0 THEN {<<>>}
    ELSE SubSequences(n - 1) \cup {Append(q, n) : q \in SubSequences(n - 1)}
InitLineage ==
    /\ Fresh
    /\ num_agents = 1
    /\ num_rounds = 1
    /\ personalities = <<>>
    /\ objs \in UNION {[1..n -> RosterAgents] : n \in 1..MaxRoster}
    /\ agents = <<>>
    /\ arg \in [agent : DOMAIN objs, all_history : SubSequences(Len(objs))]
    /\ pc = "call"

CallGetLineage ==
    /\ pc = "call"
    /\ LET lineage == get_lineage(objs, arg.agent, arg.all_history)
       IN  IF lineage.returns
           THEN pc' = "returned" /\ ret' = lineage.lineage
           ELSE \* the while loop does not end
                pc' = "looping" /\ ret' = ret
    /\ UNCHANGED <<called_frame, objs, agents, total_requests, vote_history, arg>>

SpecLineage == InitLineage /\ [][CallGetLineage]_vars

\* api/server.py: the start requests the server is sent and the background
\* tasks it runs.  The handlers are coroutines of one event loop and await
\* nothing, so each runs as one step; a background task is a plain function,
\* run in a worker thread once the response to its request is out, so each
\* assignment to a global made by it is a step of its own.
NUM_AGENTS == 8
ServerConfigs ==
    [num_agents : {NUM_AGENTS}, num_rounds : 1..MaxRounds,
     voting_method : {"single-choice", "approval"}]

\* SimulationStatus(status="running", ...) as start_simulation builds it
RunningStatus(config) ==
    [status |-> "running", current_round |-> 0, total_rounds |-> config.num_rounds,
     message |-> "Simulation starting..."]
\* SimulationStatus(status="completed", ...)
CompletedStatus(config) ==
    [status |-> "completed", current_round |-> config.num_rounds,
     total_rounds |-> config.num_rounds, message |-> "Simulation completed successfully"]
\* SimulationStatus(status="error", message=...)
ErrorStatus ==
    [status |-> "error", current_round |-> 0, total_rounds |-> 0,
     message |-> "Simulation failed"]

\* what sim.run_simulation(config.questions) can do in a background task:
\* return {} (generator unreachable), return finalize's dict, or raise; a dict
\* is kept by its keys
run_simulation_outcomes(config) ==
    {[raised |-> FALSE, results |-> <<>>], [raised |-> TRUE, results |-> None]}
    \cup
    (IF config.voting_method \in {"single-choice", "ranked-choice"}
     THEN {[raised |-> FALSE,
            results |-> <<"final_agents", "statistics", "saved_files">>]}
     ELSE {})

server_frame == <<config_vars, objs, agents, all_agents_history, current_round,
                  total_requests, histories, rounds_log, logged_agents, survivors_printed,
                  round_locals, pc>>

InitServer ==
    /\ Fresh
    /\ num_agents = 1
    /\ num_rounds = 1
    /\ personalities = <<>>
    /\ objs = <<>>
    /\ agents = <<>>
    /\ arg = <<>>
    /\ pc = "serving"

\* a start handler that does not look at the status
StartSimulation_Unguarded(config) ==
    /\ pc = "serving"
    /\ Len(background_tasks) < MaxStarts
    /\ arg' = config
    /\ simulation_results' = None
    /\ simulation_status' = RunningStatus(config)
    /\ background_tasks' = Append(background_tasks,
                                  [config |-> config, at |-> "added", results |-> None])
    /\ ret' = [status_code |-> 200, detail |-> "Simulation started"]
    /\ UNCHANGED <<server_frame, current_simulation>>

\* POST /simulation/start
StartSimulation(config) ==
    /\ pc = "serving"
    /\ arg' = config
    /\ IF simulation_status.status = "running"
       THEN \* raise HTTPException(status_code=400, ...)
            /\ ret' = [status_code |-> 400, detail |-> "A simulation is already running"]
            /\ UNCHANGED <<simulation_status, simulation_results, background_tasks>>
       ELSE /\ Len(background_tasks) < MaxStarts
            /\ simulation_results' = None
            /\ simulation_status' = RunningStatus(config)
            /\ background_tasks' = Append(background_tasks,
                                          [config |-> config, at |-> "added", results |-> None])
            /\ ret' = [status_code |-> 200, detail |-> "Simulation started"]
    /\ UNCHANGED <<server_frame, current_simulation>>

\* run_simulation_background is entered: create_simulation, current_simulation = sim
BackgroundCreate(t) ==
    /\ background_tasks[t].at = "added"
    /\ background_tasks' = [background_tasks EXCEPT ![t].at = "run_simulation"]
    /\ current_simulation' = t
    /\ UNCHANGED <<server_frame, unit_vars, simulation_status, simulation_results>>

\* results = sim.run_simulation(config.questions), or the except branch
BackgroundRunSimulation(t) ==
    /\ background_tasks[t].at = "run_simulation"
    /\ \E o \in run_simulation_outcomes(background_tasks[t].config) :
        IF o.raised
        THEN /\ simulation_status' = ErrorStatus
             /\ background_tasks' = [background_tasks EXCEPT ![t].at = "returned"]
        ELSE /\ simulation_status' = simulation_status
             /\ background_tasks' = [background_tasks EXCEPT ![t].at = "store",
                                                             ![t].results = o.results]
    /\ UNCHANGED <<server_frame, unit_vars, simulation_results, current_simulation>>

\* simulation_results = results
BackgroundStoreResults(t) ==
    /\ background_tasks[t].at = "store"
    /\ simulation_results' = background_tasks[t].results
    /\ background_tasks' = [background_tasks EXCEPT ![t].at = "complete"]
    /\ UNCHANGED <<server_frame, unit_vars, simulation_status, current_simulation>>

\* simulation_status = SimulationStatus(status="completed", ...), and the task returns
BackgroundComplete(t) ==
    /\ background_tasks[t].at = "complete"
    /\ simulation_status' = CompletedStatus(background_tasks[t].config)
    /\ background_tasks' = [background_tasks EXCEPT ![t].at = "returned"]
    /\ UNCHANGED <<server_frame, unit_vars, simulation_results, current_simulation>>

Start == \E config \in ServerConfigs : StartSimulation(config)
Create == \E t \in DOMAIN background_tasks : BackgroundCreate(t)
Run == \E t \in DOMAIN background_tasks : BackgroundRunSimulation(t)
Store == \E t \in DOMAIN background_tasks : BackgroundStoreResults(t)
Complete == \E t \in DOMAIN background_tasks : BackgroundComplete(t)

NextServer ==
    \/ Start
    \/ Create
    \/ Run
    \/ Store
    \/ Complete

SpecServer == InitServer /\ [][NextServer]_vars


\* EvolutionManager._select_parent, called on a population of its own: agents
\* with any votes received and rounds survived up to MaxCount
CountedAgents ==
    {[Agent(name, <<"p">>, 0, NoParent, 0) EXCEPT !.votes_received = v,
                                                  !.rounds_survived = s] :
        name \in {<<"A">>}, v \in 0..MaxCount, s \in 0..MaxCount}
InitSelect ==
    /\ Fresh
    /\ num_agents = 1
    /\ num_rounds = 1
    /\ personalities = <<>>
    /\ objs \in UNION {[1..n -> CountedAgents] : n \in 1..MaxVoters}
    /\ agents = [i \in DOMAIN objs |-> i]
    /\ arg = agents
    /\ pc = "call"

CallSelectParent ==
    /\ pc = "call"
    /\ \E parent \in select_parent(objs, arg) :
        ret' = [parent |-> parent, weights |-> ParentWeights(objs, arg)]
    /\ pc' = "returned"
    /\ UNCHANGED <<called_frame, objs, agents, total_requests, vote_history, arg>>

SpecSelect == InitSelect /\ [][CallSelectParent]_vars


\* EvolutionManager(mutation_rate, mutation_traits).create_evolved_agent, called
\* on a population of one parent: a manager of any rate and any pool of traits
\* EvolutionManager.__init__: mutation_traits or MUTATION_TRAITS
manager_traits(mutation_traits) ==
    IF mutation_traits = <<>> THEN MUTATION_TRAITS ELSE mutation_traits

InitEvolve ==
    /\ Constructed
    /\ arg \in [personality_prompt : Texts(PromptTokens, MaxPromptLen),
                mutation_traits : TraitPools,
                mutation_rate : Rates]
    /\ objs = <<Agent(<<"A">>, arg.personality_prompt, 0, NoParent, 0)>>
    /\ agents = <<1>>

CallCreateWithManager ==
    /\ pc = "call"
    /\ \E parent \in select_parent(objs, agents) :
        \E new_personality \in evolve_personality(objs[parent].personality_prompt,
                                   arg.mutation_rate, manager_traits(arg.mutation_traits)) :
            \E new_name \in generate_evolved_name(objs[parent].name) :
                LET c == Created(objs, creation_history, parent, new_name,
                                 new_personality, round_num)
                IN  /\ objs' = c.objs
                    /\ creation_history' = c.history
                    /\ agents' = Append(agents, c.spawned)
                    /\ ret' = <<c.spawned>>
    /\ pc' = "returned"
    /\ UNCHANGED <<server_vars, config_vars, rounds_log, logged_agents, survivors_printed,
                   all_agents_history, current_round, total_requests, vote_history,
                   elimination_history, round_locals, arg>>

SpecEvolve == InitEvolve /\ [][CallCreateWithManager]_vars


\* VotingSystem.get_loser and get_winner, called on a vote result of their own:
\* a tally of any of the names, in any insertion order, with values up to MaxCount
Tallies ==
    UNION {{[i \in DOMAIN q |-> <<q[i], v[i]>>] : v \in [DOMAIN q -> 0..MaxCount]} :
              q \in UNION {Arrangements(UnitNames, k) : k \in 0..Cardinality(UnitNames)}}
InitLoser ==
    /\ Constructed
    /\ arg \in [method : Methods, round : {1}, tally : Tallies, vote_details : {<<>>},
                total_votes : {0}]
    /\ objs = <<>>
    /\ agents = <<>>

CallGetLoserAndWinner ==
    /\ pc = "call"
    /\ ret' = [loser |-> get_loser(arg), winner |-> get_winner(arg)]
    /\ pc' = "returned"
    /\ UNCHANGED <<called_frame, objs, agents, total_requests, vote_history, arg>>

SpecLoser == InitLoser /\ [][CallGetLoserAndWinner]_vars


\* LLMInterface.generate_with_retry, called on an interface of its own; the
\* generator's reply to each attempt is drawn beforehand.  generate returns a
\* text on every path: the reply of a 200, or an "[Error: ...]" text from its
\* status branch and its except clauses
API_ERROR == <<"[Error: API returned status 500]">>
GenerateResults == {<<"answer">>, <<>>, ERROR_SENTINEL, API_ERROR}
\* result.startswith("[Error:")
StartsWithError(result) == result # <<>> /\ result[1] \in {ERROR_SENTINEL[1], API_ERROR[1]}

InitRetry ==
    /\ Constructed
    /\ \E max_retries \in 0..MaxRetries :
        arg \in [max_retries : {max_retries}, replies : [1..max_retries -> GenerateResults]]
    /\ objs = <<>>
    /\ agents = <<>>

\* a loop that goes on to the last attempt whatever an attempt returned
RetryAttempt_NeverReturnsEarly ==
    /\ pc \in {"call", "retrying"}
    /\ IF idx >= arg.max_retries
       THEN /\ pc' = (IF arg.max_retries = 0 THEN "crashed" ELSE "returned")
            /\ UNCHANGED <<idx, ret, total_requests>>
       ELSE /\ total_requests' = total_requests + 1
            /\ ret' = arg.replies[idx + 1]
            /\ idx' = idx + 1
            /\ pc' = "retrying"
    /\ UNCHANGED <<server_vars, config_vars, rounds_log, logged_agents, survivors_printed,
                   objs, agents, all_agents_history, current_round, histories, round_num,
                   answers, votes, vote_details, vote_results, loser_name, agents_before,
                   last, arg>>

\* one turn of generate_with_retry's loop, or what follows the loop
RetryAttempt ==
    /\ pc \in {"call", "retrying"}
    /\ IF idx >= arg.max_retries
       THEN \* return result; with no attempt made the name is unbound
            /\ pc' = (IF arg.max_retries = 0 THEN "crashed" ELSE "returned")
            /\ UNCHANGED <<idx, ret, total_requests>>
       ELSE \* result = self.generate(prompt, model)
            /\ total_requests' = total_requests + 1
            /\ ret' = arg.replies[idx + 1]
            /\ idx' = idx + 1
            /\ pc' = (IF ~StartsWithError(ret') THEN "returned" ELSE "retrying")
    /\ UNCHANGED <<server_vars, config_vars, rounds_log, logged_agents, survivors_printed,
                   objs, agents, all_agents_history, current_round, histories, round_num,
                   answers, votes, vote_details, vote_results, loser_name, agents_before,
                   last, arg>>

SpecRetry == InitRetry /\ [][RetryAttempt]_vars


\* GET /simulation/results: the status code of the response and what it carries
get_simulation_results(status, results) ==
    IF status.status # "completed"
    THEN [status_code |-> 400, body |-> <<"Simulation not completed yet">>]
    ELSE IF results = None
    THEN [status_code |-> 404, body |-> <<"No results available">>]
    ELSE [status_code |-> 200, body |-> results]


\* main.main: the command line either names a personalities file or does not;
\* arg.personalities is what load_initial_personalities read from the file
\* it names, personalities what it reads from the default file
CommandLines ==
    {[personalities_given |-> FALSE, personalities |-> <<>>]}
    \cup {[personalities_given |-> TRUE, personalities |-> [i \in 1..n |-> Seed(i)]] :
            n \in 0..MaxMainAgents}

InitMain ==
    /\ num_agents \in 1..MaxMainAgents
    /\ num_rounds \in 1..MaxRounds
    /\ method \in Methods
    /\ allow_self_voting = ALLOW_SELF_VOTING
    /\ personalities = [i \in 1..MaxMainAgents |-> Seed(i)]
    /\ arg \in CommandLines
    /\ objs = <<>>
    /\ agents = <<>>
    /\ all_agents_history = <<>>
    /\ current_round = 0
    /\ total_requests = 0
    /\ vote_history = <<>>
    /\ elimination_history = <<>>
    /\ creation_history = <<>>
    /\ rounds_log = <<>>
    /\ logged_agents = <<>>
    /\ survivors_printed = <<>>
    /\ simulation_status = IdleStatus
    /\ simulation_results = None
    /\ current_simulation = 0
    /\ background_tasks = <<>>
    /\ pc = "main"
    /\ round_num = 0
    /\ idx = 0
    /\ answers = <<>>
    /\ votes = <<>>
    /\ vote_details = <<>>
    /\ vote_results = NoResult
    /\ loser_name = EMPTY_NAME
    /\ agents_before = <<>>
    /\ last = NoLast
    /\ ret = NoReturnYet

\* main up to its call of run_simulation: create_simulation, then
\* initialize_agents with the list of the file when the command line names one
MainCreateSimulation ==
    /\ pc = "main"
    /\ IF ~arg.personalities_given
       THEN /\ pc' = "idle"
            /\ UNCHANGED <<objs, agents, all_agents_history, logged_agents>>
       ELSE IF Len(arg.personalities) = 0
       THEN \* len(personalities) % len(personalities) divides by zero
            /\ pc' = "crashed"
            /\ UNCHANGED <<objs, agents, all_agents_history, logged_agents>>
       ELSE /\ objs' = objs \o Founders(arg.personalities, num_agents)
            /\ agents' = agents \o [i \in 1..num_agents |-> Len(objs) + i]
            /\ all_agents_history' =
                   all_agents_history \o [i \in 1..num_agents |-> Len(objs) + i]
            /\ logged_agents' = LogAgents(objs', logged_agents,
                                          [i \in 1..num_agents |-> Len(objs) + i])
            /\ pc' = "idle"
    /\ UNCHANGED <<server_vars, config_vars, rounds_log, survivors_printed, arg, ret,
                   current_round, total_requests, histories, round_locals>>

NextMain ==
    \/ MainCreateSimulation
    \/ RunSimulation
    \/ RunRoundEnter
    \/ GenerateAnswer
    \/ ConductVote
    \/ SingleChoiceVote
    \/ SingleChoiceTally
    \/ RankedChoiceVote
    \/ RankedChoiceTally
    \/ Eliminate
    \/ Evolve
    \/ Finalize

SpecMain == InitMain /\ [][NextMain]_vars


(***************************************************************************)
(* Properties of a run.                                                    *)
(***************************************************************************)
Elements(seq) == {seq[i] : i \in DOMAIN seq}
KnownMethod == method \in {"single-choice", "ranked-choice"}
\* the value of candidate k in a tally, a candidate without an entry counting 0
TallyValue(tally, k) == IF DictHas(tally, k) THEN DictGet(tally, k) ELSE 0

\* C1: in a run that starts with at least two agents, under either voting method
\* and whatever the generator returns, every run_round returns and leaves the
\* population at the size it had: one agent of it is removed, one new agent is
\* appended.
C1_PopulationSizePreserved ==
    (num_agents >= 2 /\ KnownMethod) =>
        /\ pc = "crashed" => current_round = 0 /\ agents = <<>>
        /\ (pc \in {"loop", "done"} /\ current_round >= 1) =>
            /\ Len(agents) = Len(agents_before)
            /\ last.spawned \notin Elements(agents_before)
            /\ \E i \in DOMAIN agents_before :
                /\ agents_before[i] = last.eliminated
                /\ agents = Pop(agents_before, i) \o <<last.spawned>>

\* two rounds of three agents were run, the second with agents of one name
C1_Witness ==
    /\ pc = "done" /\ current_round = 2 /\ num_agents = 3 /\ Len(agents) = 3
    /\ \E i, j \in DOMAIN agents_before :
        i # j /\ objs[agents_before[i]].name = objs[agents_before[j]].name

\* C2: the agent eliminated in a round has the least tally value of the round
\* among all the candidates that answered, a candidate without a vote counting 0.
C2_LoserHasMinimumTally ==
    (pc = "evolve" /\ last.eliminated # 0) =>
        \A k \in DictKeys(answers) :
            TallyValue(vote_results.tally, objs[last.eliminated].name)
                <= TallyValue(vote_results.tally, k)

\* C3: the keys of the tally of a vote result are exactly the candidate names of
\* the round's answers.
C3_TallyKeysAreCandidates ==
    pc \in {"eliminate", "evolve"} => DictKeys(vote_results.tally) = DictKeys(answers)

\* C4: the counts of a plurality result add up to the number of agents that
\* voted, which is the recorded total_votes; while the votes are cast, the counts
\* add up to the number of votes cast so far.
C4_PluralitySumIsVoters ==
    /\ pc = "vote_single" => DictSum(votes) = idx - 1
    /\ pc = "eliminate" =>
        /\ DictSum(vote_results.tally) = Len(agents)
        /\ DictSum(vote_results.tally) = vote_results.total_votes

\* a plurality result of several voters who all fell back to their own name
C4_Witness ==
    /\ pc = "eliminate" /\ ~allow_self_voting /\ Len(agents) >= 2
    /\ \A i \in DOMAIN vote_results.vote_details :
        /\ vote_results.vote_details[i].justification = NO_OTHER_OPTIONS
        /\ vote_results.vote_details[i].voted_for = vote_results.vote_details[i].voter
    /\ DictSum(vote_results.tally) = Len(agents)

\* C7: no two agents of the active population have the same name.
C7_ActiveNamesUnique ==
    \A i, j \in DOMAIN agents : i # j => objs[agents[i]].name # objs[agents[j]].name

\* C8: a founder has generation 0 and no parent; an agent spawned in round r has
\* the generation of the parent selected plus 1, that parent's name as
\* parent_name and birth_round r.
C8_GenerationOfParentPlusOne ==
    /\ \A o \in DOMAIN objs :
        IF o <= num_agents
        THEN objs[o].generation = 0 /\ objs[o].parent_name = NoParent
        ELSE /\ objs[o].generation >= 1
             /\ objs[o].parent_name # NoParent
             /\ objs[o].birth_round = creation_history[o - num_agents].round
    /\ (pc \in {"loop", "done"} /\ last.spawned # 0) =>
        /\ objs[last.spawned].generation = objs[last.parent].generation + 1
        /\ objs[last.spawned].parent_name = objs[last.parent].name
        /\ objs[last.spawned].birth_round = current_round

\* an agent of generation 2 was spawned in round 2
C8_Witness ==
    /\ pc = "loop" /\ current_round = 2 /\ last.spawned # 0
    /\ objs[last.spawned].generation = 2
    /\ objs[last.parent].birth_round = 1

(***************************************************************************)
(* Properties of the operations called on their own.                       *)
(***************************************************************************)
\* the candidate set of a vote: the answers' names, without the voter's own
\* unless self-voting is allowed
Candidates ==
    IF arg.allow_self_voting THEN DictKeys(arg.answers)
    ELSE DictKeys(arg.answers) \ {arg.self_name}

\* the name a response gives: its first line, blanks around it dropped
RECURSIVE UpToLineBreak(_)
UpToLineBreak(text) ==
    IF text = <<>> \/ Head(text) = "\n" THEN <<>>
    ELSE <<Head(text)>> \o UpToLineBreak(Tail(text))
NameGiven(response) == Strip(UpToLineBreak(Strip(response)))

\* C5: whatever the generator returns, a vote over a non-empty candidate set
\* names a candidate, and when the name the response gave is no candidate the
\* justification is the parsing-failed marker.
C5_VoteNamesACandidate ==
    (pc = "returned" /\ Candidates # {}) =>
        /\ ret.voted_for \in Candidates
        /\ NameGiven(arg.response) \notin Candidates =>
               ret.justification = VOTE_PARSING_FAILED

\* the generator failed and one of two candidates was drawn
C5_Witness ==
    /\ pc = "returned" /\ arg.response = ERROR_SENTINEL
    /\ Cardinality(Candidates) = 2
    /\ ret.voted_for \in Candidates /\ ret.justification = VOTE_PARSING_FAILED

\* C6: with self-voting disabled and the voter's own answer the only one, the
\* vote is the voter's own name with the no-other-options justification, and the
\* generator is not called.
C6_OnlyOwnAnswerNoCall ==
    (pc = "returned" /\ ~arg.allow_self_voting
        /\ DictKeys(arg.answers) = {arg.self_name}) =>
        /\ ret.voted_for = arg.self_name
        /\ ret.justification = NO_OTHER_OPTIONS
        /\ total_requests = 0

C6_Witness ==
    /\ pc = "returned" /\ ~arg.allow_self_voting
    /\ arg.answers = << <<arg.self_name, <<"answer">>>> >>
    /\ arg.response = <<"B", "\n", "x">>
    /\ ret.voted_for = arg.self_name

\* C9: after any add_memory calls the memory holds at most MAX_MEMORY_SIZE
\* entries, the most recently inserted ones in the order of their insertion.
C9_MemoryKeepsMostRecent ==
    LET memory == objs[1].memory
        kept == IF Len(arg) > MAX_MEMORY_SIZE THEN MAX_MEMORY_SIZE ELSE Len(arg)
    IN  /\ Len(memory) = kept
        /\ \A i \in 1..kept : memory[i] = arg[Len(arg) - kept + i]

\* two entries more than the cap were inserted
C9_Witness ==
    /\ Len(arg) = MAX_MEMORY_SIZE + 2
    /\ Len(objs[1].memory) = MAX_MEMORY_SIZE
    /\ objs[1].memory[1] = arg[3]

\* the points the positions of ranking that name k are worth, from position i
\* (1-based) on, over c candidates
RECURSIVE PositionalPoints(_, _, _, _)
PositionalPoints(ranking, k, c, i) ==
    IF i > Len(ranking) THEN 0
    ELSE (IF ranking[i] = k THEN c - (i - 1) ELSE 0)
         + PositionalPoints(ranking, k, c, i + 1)

\* C10: over c candidates in the answer set, one voter's ranking gives the
\* candidate at 0-based position index c - index points, and a ranking that lists
\* c candidates gives c + (c-1) + ... + 1 points in all.
C10_RankedPointsByPosition ==
    pc = "returned" =>
        LET c == Len(arg.answers)
            ranking == ret.vote_details[1].rankings
        IN  /\ DictKeys(ret.tally) = Elements(ranking)
            /\ \A k \in DictKeys(ret.tally) :
                   DictGet(ret.tally, k) = PositionalPoints(ranking, k, c, 1)
            /\ Len(ranking) = c => 2 * DictSum(ret.tally) = c * (c + 1)

\* one voter ranked all three candidates, each once
C10_Witness ==
    /\ pc = "returned" /\ Len(arg.answers) = 3
    /\ Len(ret.vote_details[1].rankings) = 3
    /\ Cardinality(Elements(ret.vote_details[1].rankings)) = 3
    /\ ret.vote_details[1].justification # RANKING_PARSING_FAILED
    /\ DictSum(ret.tally) = 6

\* C11: mutate with rate 1.0 returns a description other than the agent's
\* current one, whatever the trait pool, the empty one included; mutate with
\* rate 0.0 returns the current description.
C11_MutateAlwaysOrNever ==
    pc = "returned" =>
        /\ arg.mutation_rate = 100 => ret # objs[1].personality_prompt
        /\ arg.mutation_rate = 0 => ret = objs[1].personality_prompt

\* mutate returned from a call with rate 1.0 and an empty trait pool
C11_Witness ==
    /\ pc = "returned"
    /\ arg.mutation_rate = 100
    /\ arg.mutation_traits = <<>>
    /\ ret = objs[1].personality_prompt \o EVOLVED_NOW \o COMPARED

\* C12: given a list of L personalities, 0 < L < num_agents, initialize_agents
\* creates num_agents founders, the founder at index i (from 0) taking the entry
\* at index i mod L of the list it was given.
C12_FoundersCycleTheList ==
    (pc = "returned" /\ 0 < Len(arg) /\ Len(arg) < num_agents) =>
        /\ Len(agents) = num_agents
        /\ \A i \in 0..(num_agents - 1) :
            /\ objs[agents[i + 1]].name = arg[(i % Len(arg)) + 1].name
            /\ objs[agents[i + 1]].personality_prompt = arg[(i % Len(arg)) + 1].personality

\* C13: initialize_agents does not fail on a list shorter than num_agents,
\* whatever its length from 0 up.
C13_InitializeNeverFails ==
    Len(arg) <= num_agents => pc # "crashed"

\* C14: given Q questions, 0 < Q < num_rounds, round r (from 1) of
\* run_simulation is asked the question at index (r - 1) mod Q of the list given.
C14_QuestionsCycleTheList ==
    (pc = "returned" /\ arg.given /\ 0 < Len(arg.questions)
       /\ Len(arg.questions) < num_rounds) =>
        \A r \in 1..num_rounds :
            QuestionOfRound(ret, r) = arg.questions[((r - 1) % Len(arg.questions)) + 1]

\* the positions of run_round
InRound == pc \in {"answer", "conduct", "vote_single", "tally_single", "vote_ranked",
                   "tally_ranked", "eliminate", "evolve"}

\* C15: a run of at least two agents that found the generator reachable runs the
\* rounds 1, 2, ..., num_rounds once each and in that order and then finalizes:
\* it never stops short, a round starts only when the round before it has
\* recorded its elimination and its spawn, and current_round ends at num_rounds.
C15_RoundsRunInOrder ==
    (num_agents >= 2 /\ pc \notin {"idle", "aborted"}) =>
        /\ pc \notin {"crashed", "finalize_crashed"}
        /\ InRound =>
            /\ round_num = current_round + 1
            /\ round_num <= num_rounds
            /\ Len(creation_history) = current_round
        /\ pc \in {"loop", "done"} =>
            /\ Len(elimination_history) = current_round
            /\ Len(creation_history) = current_round
        /\ pc = "done" => current_round = num_rounds
        /\ \A i \in DOMAIN elimination_history : elimination_history[i].round = i
        /\ \A i \in DOMAIN creation_history : creation_history[i].round = i

\* C16: a run whose reachability probe fails aborts before any round: no agent
\* is created, no generation call is made, no vote, elimination or creation is
\* recorded, and run_simulation returns the empty dict.
C16_UnreachableAbortsCleanly ==
    pc = "aborted" =>
        /\ objs = <<>> /\ agents = <<>> /\ all_agents_history = <<>>
        /\ total_requests = 0
        /\ current_round = 0 /\ round_num = 0
        /\ vote_history = <<>> /\ elimination_history = <<>> /\ creation_history = <<>>
        /\ ret = <<>>

\* a run of three agents and two rounds that aborted on the probe
C16_Witness ==
    /\ pc = "aborted" /\ num_agents = 3 /\ num_rounds = 2 /\ Len(personalities) = 3
    /\ ret = <<>> /\ ret # NoReturnYet

\* the names of the agents of a population
NamesOf(population) == {objs[population[i]].name : i \in DOMAIN population}

\* C17: under a recognized method, a round of at least two agents completes
\* whichever of its generation calls fail (a failed call returns the error
\* sentinel), all of them included: the round never stops, every vote and the
\* choice of a parent have an outcome, every agent has an answer recorded, a vote result of all voters is produced, one
\* agent is eliminated and one is spawned.
C17_FailedCallsDoNotStopTheRound ==
    (KnownMethod /\ Len(agents_before) >= 2) =>
        /\ pc # "crashed"
        /\ pc = "vote_single" =>
            \A response \in VoteResponses(DictKeys(answers)) :
                vote_on_answers(objs[agents[idx]].name, answers, allow_self_voting,
                                response) # {}
        /\ pc = "vote_ranked" =>
            \A response \in RankingResponses(DictKeys(answers)) :
                get_agent_rankings(objs[agents[idx]].name, answers, allow_self_voting,
                                   response) # {}
        /\ pc \in {"conduct", "vote_single", "tally_single", "vote_ranked",
                   "tally_ranked", "eliminate", "evolve"} =>
            DictKeys(answers) = NamesOf(agents_before)
        /\ pc \in {"eliminate", "evolve"} =>
            /\ vote_results.method = method
            /\ vote_results.round = round_num
            /\ Len(vote_results.vote_details) = Len(agents_before)
        /\ pc = "evolve" =>
            /\ last.eliminated \in Elements(agents_before)
            /\ Len(agents) = Len(agents_before) - 1
            /\ select_parent(objs, agents) # {}
        /\ (pc \in {"loop", "done"} /\ current_round >= 1) =>
            /\ last.eliminated \in Elements(agents_before)
            /\ last.spawned = Len(objs)
            /\ Len(agents) = Len(agents_before)
            /\ Len(elimination_history) = current_round
            /\ Len(creation_history) = current_round

\* the second round of a run of three agents; in this round every answer and
\* every vote call failed, and an agent was eliminated all the same
C17_Witness ==
    /\ pc = "evolve" /\ round_num = 2 /\ Len(agents_before) = 3
    /\ \A i \in DOMAIN answers : answers[i][2] = ERROR_SENTINEL
    /\ \A i \in DOMAIN vote_results.vote_details :
        vote_results.vote_details[i].justification = VOTE_PARSING_FAILED
    /\ Len(vote_results.vote_details) = 3
    /\ last.eliminated \in Elements(agents_before)
    /\ select_parent(objs, agents) # {}

\* C18: a run whose voting method is not one of the two recognized ones stops
\* with an error at its first conduct_vote, before any vote is cast: no vote is
\* requested of any agent (the only generation calls are those for the answers
\* of round 1), the vote history stays empty, and no agent is eliminated or
\* spawned.
C18_UnknownMethodFailsFast ==
    ~KnownMethod =>
        /\ pc \in {"idle", "aborted", "crashed", "loop", "answer", "conduct"}
        /\ pc = "loop" => current_round = 0
        /\ vote_history = <<>> /\ votes = <<>> /\ vote_details = <<>>
        /\ \A o \in DOMAIN objs : objs[o].votes_cast = 0 /\ objs[o].votes_received = 0
        /\ total_requests <= Len(agents)
        /\ elimination_history = <<>> /\ creation_history = <<>>
        /\ agents = all_agents_history
        /\ last = NoLast

\* a run of three agents under the method "approval", stopped by conduct_vote
\* in round 1 after the three answers
C18_Witness ==
    /\ pc = "crashed" /\ method = "approval" /\ round_num = 1
    /\ Len(agents) = 3 /\ Len(answers) = 3 /\ total_requests = 3
    /\ vote_history = <<>>

\* C19: eliminate_agent called with a name that no agent of the population has
\* returns None and leaves the population and the elimination history as they
\* were.
C19_AbsentNameChangesNothing ==
    (pc = "returned" /\ arg.loser_name \notin NamesOf(arg.agents)) =>
        /\ ret = <<0>>
        /\ agents = arg.agents
        /\ elimination_history = arg.elimination_history

\* after an agent was eliminated, a call with a name no agent of the two left has
C19_Witness ==
    /\ pc = "returned"
    /\ arg.loser_name = <<"D">>
    /\ Len(arg.agents) = 2 /\ Len(arg.elimination_history) = 1
    /\ ret = <<0>> /\ agents = arg.agents
    /\ elimination_history = arg.elimination_history

\* C20: create_evolved_agent called with an empty population raises an error
\* and has no effect: no agent is constructed and the creation history is as it
\* was; called with a non-empty population it does not raise.
C20_EmptyPopulationRaises ==
    /\ (pc \in {"returned", "crashed"} /\ arg.agents = <<>>) =>
        /\ pc = "crashed"
        /\ objs = arg.objs
        /\ creation_history = arg.creation_history
        /\ agents = <<>>
    /\ (pc \in {"returned", "crashed"} /\ arg.agents # <<>>) =>
        /\ pc = "returned"
        /\ Len(objs) = Len(arg.objs) + 1
        /\ Len(creation_history) = Len(arg.creation_history) + 1

\* create_evolved_agent raised on an empty population
C20_Witness ==
    /\ pc = "crashed" /\ arg.agents = <<>> /\ round_num = 1
    /\ objs = <<>> /\ creation_history = <<>> /\ ret = <<0>>

\* the agent a lineage has at position i: the agent asked about at the end,
\* before it the first agent of the roster with the name listed
LineageAgent(lineage, i) ==
    IF i = Len(lineage) THEN arg.agent
    ELSE LET k == FirstNamed(objs, arg.all_history, lineage[i])
         IN  IF k = 0 THEN 0 ELSE arg.all_history[k]

\* C21: the list get_lineage returns ends with the agent's own name; every name
\* before is the parent_name of the agent listed after it, looked up in the
\* roster by name; the list starts at an agent without a parent or at a name
\* the roster does not have, which ends the walk without an error.
C21_LineageOldestFirst ==
    pc = "returned" =>
        /\ ret # <<>>
        /\ ret[Len(ret)] = objs[arg.agent].name
        /\ \A i \in 1..(Len(ret) - 1) :
            /\ LineageAgent(ret, i + 1) # 0
            /\ objs[LineageAgent(ret, i + 1)].parent_name = ret[i]
        /\ \/ LineageAgent(ret, 1) = 0 /\ Len(ret) > 1
           \/ LineageAgent(ret, 1) # 0 /\ objs[LineageAgent(ret, 1)].parent_name = NoParent

\* a lineage of three names, through two agents of the roster to a parent the
\* roster does not have
C21_Witness ==
    /\ pc = "returned"
    /\ ret = << <<"A">>, <<"B">>, <<"A">> >>
    /\ LineageAgent(ret, 1) = 0
    /\ Len(arg.all_history) = 1


\* C22: when a run is over, the survivors the final report lists are the
\* agents of the population, each once, in descending order of the votes
\* they received over their lifetime.
C22_SurvivorsListedByVotes ==
    pc \in {"done", "finalize_crashed"} =>
        /\ Len(survivors_printed) = Len(agents)
        /\ Elements(survivors_printed) = Elements(agents)
        /\ \A i \in 1..(Len(survivors_printed) - 1) :
              objs[survivors_printed[i]].votes_received
                  >= objs[survivors_printed[i + 1]].votes_received

\* a finished run whose population is not itself in descending order of votes
C22_Witness ==
    /\ pc \in {"done", "finalize_crashed"}
    /\ \E i \in 1..(Len(agents) - 1) :
          objs[agents[i]].votes_received < objs[agents[i + 1]].votes_received
    /\ survivors_printed # agents


\* the background tasks that were added and have not returned
ActiveRuns == {t \in DOMAIN background_tasks : background_tasks[t].at # "returned"}

\* C23: at most one background run is added and not yet returned at any time,
\* the status is 'running' exactly while there is one, and a start request
\* that arrives while the status is 'running' is answered 400 and leaves the
\* status, the stored results and the background tasks as they were.
C23_OneRunAtATime ==
    /\ [](Cardinality(ActiveRuns) <= 1)
    /\ []((simulation_status.status = "running") <=> (ActiveRuns # {}))
    /\ [][(Start /\ simulation_status.status = "running") =>
            /\ ret'.status_code = 400
            /\ UNCHANGED <<simulation_status, simulation_results, background_tasks>>]_vars

\* a first run returned, a second one is inside run_simulation, and the start
\* request that came last was rejected
C23_Witness ==
    /\ Len(background_tasks) = 2
    /\ background_tasks[1].at = "returned"
    /\ background_tasks[2].at = "run_simulation"
    /\ ret.status_code = 400
    /\ simulation_status.status = "running"


\* q continues p: it begins with the entries of p, in their order
IsPrefix(p, q) == Len(p) <= Len(q) /\ SubSeq(q, 1, Len(p)) = p

\* the roster the simulation keeps for lineage queries is append-only and holds
\* the founders and one agent more for every round completed
RosterInMemoryAppendOnly ==
    /\ [](all_agents_history # <<>> =>
            Len(all_agents_history) = num_agents + current_round)
    /\ [][IsPrefix(all_agents_history, all_agents_history')]_vars

\* C24: the historical roster, as the simulation keeps it and as the logger
\* records it for the report, holds after initialization with N founders and
\* k completed rounds exactly N + k agents, and a step only ever appends to
\* it: no entry is removed, moved or replaced.
C24_RosterAppendOnly ==
    /\ [](all_agents_history # <<>> =>
            /\ Len(all_agents_history) = num_agents + current_round
            /\ Len(logged_agents) = num_agents + current_round)
    /\ [][/\ IsPrefix(all_agents_history, all_agents_history')
          /\ IsPrefix(logged_agents, logged_agents')]_vars


\* the entry a vote leaves at the end of a memory
IsVoteEntry(memory, r) ==
    /\ memory # <<>>
    /\ memory[Len(memory)].type = "vote"
    /\ memory[Len(memory)].round = r

\* C25: every vote_on_answers call of a plurality phase, the one that falls back
\* to the voter's own name included, adds one to the voter's votes_cast and one
\* 'vote' entry to its memory; when the phase is over every agent of the
\* population has cast one vote more than the rounds it voted in before.
C25_EveryVoteIsCounted ==
    /\ [][pc = "vote_single" =>
            LET voter == agents[idx]
            IN  /\ objs'[voter].votes_cast = objs[voter].votes_cast + 1
                /\ Len(objs'[voter].memory) = Len(objs[voter].memory) + 1
                /\ IsVoteEntry(objs'[voter].memory, round_num)]_vars
    /\ [](pc = "tally_single" =>
            \A i \in DOMAIN agents :
                objs[agents[i]].votes_cast = objs[agents[i]].rounds_survived)

\* the votes that have other candidates to choose from are counted as claimed
VotesWithCandidatesAreCounted ==
    [][(pc = "vote_single"
        /\ available_answers(objs[agents[idx]].name, answers, allow_self_voting) # <<>>) =>
            LET voter == agents[idx]
            IN  /\ objs'[voter].votes_cast = objs[voter].votes_cast + 1
                /\ Len(objs'[voter].memory) = Len(objs[voter].memory) + 1
                /\ IsVoteEntry(objs'[voter].memory, round_num)]_vars


\* C26: the tally of a plurality vote adds to the votes_received of each agent
\* of the population the count the round's tally holds for its name, nothing
\* when it holds none; and no step of a run lowers an agent's votes_received.
C26_VotesReceivedGrowByTally ==
    /\ [][pc = "tally_single" =>
            \A i \in DOMAIN agents :
                objs'[agents[i]].votes_received =
                    objs[agents[i]].votes_received
                        + TallyValue(vote_results'.tally, objs[agents[i]].name)]_vars
    /\ [][\A o \in DOMAIN objs :
            objs'[o].votes_received >= objs[o].votes_received]_vars

\* the second plurality tally of a run was made: an agent holds more votes than
\* the round gave it, and another agent got none in the round
C26_Witness ==
    /\ pc = "eliminate"
    /\ method = "single-choice"
    /\ round_num = 2
    /\ \E i \in DOMAIN agents :
          /\ TallyValue(vote_results.tally, objs[agents[i]].name) > 0
          /\ objs[agents[i]].votes_received
                > TallyValue(vote_results.tally, objs[agents[i]].name)
    /\ \E i \in DOMAIN agents : ~DictHas(vote_results.tally, objs[agents[i]].name)


\* a memory holds an entry of the type, made in round r
HasEntry(memory, memory_type, r) ==
    \E i \in DOMAIN memory : memory[i].type = memory_type /\ memory[i].round = r
\* the agent answered in the round the run is in
Answered(agent) == HasEntry(objs[agent].memory, "answer", round_num)

\* C27: a round goes through its phases in one order.  While it runs, every
\* agent that entered it has the round counted as survived; the answers are
\* taken in population order and no vote is cast before the last of them; the
\* votes are cast in population order and the round's result is made when all
\* are in; the elimination is recorded after that and before the creation; the
\* eliminated agent answered and voted in the round; and the spawned agent has
\* not answered, not voted and survived no round when the round is over.
C27_PhasesInOrder ==
    /\ InRound =>
        /\ \A i \in DOMAIN agents_before :
              objs[agents_before[i]].rounds_survived
                  = round_num - objs[agents_before[i]].birth_round
        /\ Len(creation_history) = round_num - 1
    /\ pc = "answer" =>
        /\ agents = agents_before
        /\ \A i \in DOMAIN agents : Answered(agents[i]) <=> i < idx
        /\ votes = <<>> /\ vote_details = <<>>
        /\ Len(vote_history) = round_num - 1
        /\ Len(elimination_history) = round_num - 1
    /\ pc \in {"conduct", "vote_single", "vote_ranked", "tally_single", "tally_ranked",
               "eliminate"} =>
        /\ agents = agents_before
        /\ \A i \in DOMAIN agents : Answered(agents[i])
        /\ Len(elimination_history) = round_num - 1
    /\ pc \in {"vote_single", "vote_ranked"} =>
        /\ Len(vote_details) = idx - 1
        /\ \A i \in DOMAIN vote_details : vote_details[i].voter = objs[agents[i]].name
        /\ Len(vote_history) = round_num - 1
    /\ pc \in {"tally_single", "tally_ranked"} =>
        /\ Len(vote_details) = Len(agents)
        /\ Len(vote_history) = round_num - 1
    /\ pc = "eliminate" =>
        /\ Len(vote_results.vote_details) = Len(agents)
        /\ vote_results.round = round_num
        /\ Len(vote_history) = round_num
    /\ pc = "evolve" =>
        /\ Len(elimination_history) = round_num
        /\ last.eliminated \in Elements(agents_before)
        /\ last.eliminated \notin Elements(agents)
        /\ Answered(last.eliminated)
        /\ \E i \in DOMAIN vote_results.vote_details :
              /\ agents_before[i] = last.eliminated
              /\ vote_results.vote_details[i].voter = objs[last.eliminated].name
    /\ (pc \in {"loop", "done", "finalize_crashed"} /\ current_round >= 1) =>
        /\ Len(creation_history) = current_round
        /\ Len(elimination_history) = current_round
        /\ agents[Len(agents)] = last.spawned
        /\ last.spawned \notin Elements(agents_before)
        /\ objs[last.spawned].birth_round = current_round
        /\ objs[last.spawned].rounds_survived = 0
        /\ objs[last.spawned].answers_given = 0
        /\ objs[last.spawned].votes_cast = 0
        /\ objs[last.spawned].memory = <<>>

\* in round 2 the agent spawned in round 1 has answered and voted and is the
\* one eliminated
C27_Witness ==
    /\ pc = "evolve"
    /\ round_num = 2
    /\ Len(agents_before) = 3
    /\ objs[last.eliminated].birth_round = 1
    /\ objs[last.eliminated].rounds_survived = 1
    /\ objs[last.eliminated].answers_given = 1


\* q lists every element of the set S once and nothing else
IsRankingOf(q, S) ==
    /\ Len(q) = Cardinality(S)
    /\ Elements(q) = S

\* C28: with self-voting off, the ranking recorded for a voter lists every
\* candidate other than the voter once and nothing else, or is the voter's own
\* name alone when there is no other candidate, whatever the generator returned.
C28_RankingIsFull ==
    (pc = "returned" /\ ~arg.allow_self_voting) =>
        LET others == DictKeys(arg.answers) \ {arg.self_name}
            ranking == ret.vote_details[1].rankings
        IN  IF others = {} THEN ranking = <<arg.self_name>>
            ELSE IsRankingOf(ranking, others)

\* the ranking recorded when nothing of the response could be parsed, the
\* random order, is a full ranking
ShuffledRankingsAreFull ==
    (pc = "returned" /\ ~arg.allow_self_voting
        /\ ret.vote_details[1].justification = RANKING_PARSING_FAILED) =>
            IsRankingOf(ret.vote_details[1].rankings,
                        DictKeys(arg.answers) \ {arg.self_name})


\* C29: _select_parent weighs each agent by its votes received plus one, or,
\* when those weights are all the same, by its rounds survived plus one; every
\* weight is positive, so every agent of the population can come out, and the
\* agent that comes out is one of the population.
C29_ParentWeightedBySuccess ==
    /\ pc = "call" => select_parent(objs, arg) = Elements(arg)
    /\ pc = "returned" =>
        /\ ret.parent \in Elements(arg)
        /\ \A i \in DOMAIN arg : ret.weights[i] > 0
        /\ IF \A i, j \in DOMAIN arg :
                 objs[arg[i]].votes_received = objs[arg[j]].votes_received
           THEN \A i \in DOMAIN arg : ret.weights[i] = objs[arg[i]].rounds_survived + 1
           ELSE \A i \in DOMAIN arg : ret.weights[i] = objs[arg[i]].votes_received + 1

\* of three agents with the same votes, the one selected has survived the
\* fewest rounds
C29_Witness ==
    /\ pc = "returned"
    /\ Len(arg) = 3
    /\ \A i \in DOMAIN arg : objs[arg[i]].votes_received = 1
    /\ objs[ret.parent].rounds_survived = 0
    /\ \E i \in DOMAIN arg : objs[arg[i]].rounds_survived = 2
    /\ ret.weights[ret.parent] = 1


\* C30: whatever the mutation rate and the pool of traits, the description of a
\* spawned agent is its parent's description followed by an annotation that is
\* not empty, so the two differ, and the spawn leaves the parent's description
\* as it was.
C30_ChildDescriptionExtendsParents ==
    pc = "returned" =>
        LET child == objs[ret[1]].personality_prompt
            parent == objs[1].personality_prompt
        IN  /\ parent = arg.personality_prompt
            /\ Len(child) > Len(parent)
            /\ SubSeq(child, 1, Len(parent)) = parent
            /\ child # parent

\* a manager given rate 0 and an empty pool spawned a child: its description is
\* the parent's and the refinement sentence
C30_Witness ==
    /\ pc = "returned"
    /\ arg.mutation_rate = 0
    /\ arg.mutation_traits = <<>>
    /\ arg.personality_prompt # <<>>
    /\ objs[2].personality_prompt = arg.personality_prompt \o REFINED
    /\ objs[2].parent_name = objs[1].name


\* the positions of a tally that hold its least, its greatest value
Lowest(tally) == {i \in DOMAIN tally : \A j \in DOMAIN tally : tally[i][2] <= tally[j][2]}
Highest(tally) == {i \in DOMAIN tally : \A j \in DOMAIN tally : tally[i][2] >= tally[j][2]}
\* the least element of a non-empty set of positions
FirstOf(S) == CHOOSE i \in S : \A j \in S : i <= j

\* C31: on a result of a recognized method with a tally that is not empty,
\* get_loser returns the key inserted first among those of the least value and
\* get_winner the key inserted first among those of the greatest value; when all
\* values are the same the two return the same name.
C31_TiesGoToTheFirstInserted ==
    (pc = "returned" /\ arg.method \in {"single-choice", "ranked-choice"}
        /\ arg.tally # <<>>) =>
        /\ ret.loser = arg.tally[FirstOf(Lowest(arg.tally))][1]
        /\ ret.winner = arg.tally[FirstOf(Highest(arg.tally))][1]
        /\ (\A i, j \in DOMAIN arg.tally : arg.tally[i][2] = arg.tally[j][2]) =>
              ret.loser = ret.winner

\* a ranked tally of three names that all hold the same value: the loser and
\* the winner are both the name inserted first
C31_Witness ==
    /\ pc = "returned"
    /\ arg.method = "ranked-choice"
    /\ Len(arg.tally) = 3
    /\ arg.tally[1][2] = 2 /\ arg.tally[2][2] = 2 /\ arg.tally[3][2] = 2
    /\ ret.loser = arg.tally[1][1]
    /\ ret.winner = arg.tally[1][1]


\* the attempts whose reply is not an error text
Successes == {i \in DOMAIN arg.replies : ~StartsWithError(arg.replies[i])}

\* C32: generate_with_retry with max_retries >= 1 never raises and never calls
\* generate more than max_retries times; it returns the first reply that is not
\* an error text and makes no call after it, and when every reply is an error
\* text it returns the last of them, after max_retries calls.
C32_RetryIsBounded ==
    arg.max_retries >= 1 =>
        /\ pc # "crashed"
        /\ total_requests <= arg.max_retries
        /\ pc = "retrying" => Successes \cap 1..idx = {}
        /\ pc = "returned" =>
            IF Successes # {}
            THEN /\ total_requests = FirstOf(Successes)
                 /\ ret = arg.replies[FirstOf(Successes)]
            ELSE /\ total_requests = arg.max_retries
                 /\ ret = arg.replies[arg.max_retries]
                 /\ StartsWithError(ret)

\* three attempts were allowed, the first failed and the second did not: two
\* calls were made
C32_Witness ==
    /\ pc = "returned"
    /\ arg.max_retries = 3
    /\ StartsWithError(arg.replies[1])
    /\ ~StartsWithError(arg.replies[2])
    /\ total_requests = 2
    /\ ret = arg.replies[2]


\* C33: when a round is over every agent of the population has answered as
\* many times as it survived rounds, which is the number of rounds run since
\* the round it was born in; the record of an eliminated agent shows at least
\* one round survived, the rounds from its birth to its elimination.
C33_CountersFollowTheRounds ==
    /\ (pc \in {"loop", "done", "finalize_crashed"}) =>
        \A i \in DOMAIN agents :
            /\ objs[agents[i]].rounds_survived = current_round - objs[agents[i]].birth_round
            /\ objs[agents[i]].answers_given = objs[agents[i]].rounds_survived
    /\ \A i \in DOMAIN elimination_history :
        /\ elimination_history[i].rounds_survived >= 1
        /\ elimination_history[i].answers_given = elimination_history[i].rounds_survived
    /\ (pc = "evolve" /\ last.eliminated # 0) =>
        elimination_history[Len(elimination_history)].rounds_survived
            = round_num - objs[last.eliminated].birth_round

\* two rounds were run: a founder was eliminated in the second after two rounds
\* survived, and the agent spawned in the first is in the population with one
C33_Witness ==
    /\ pc = "loop"
    /\ current_round = 2
    /\ Len(elimination_history) = 2
    /\ elimination_history[2].rounds_survived = 2
    /\ \E i \in DOMAIN agents :
          /\ objs[agents[i]].birth_round = 1
          /\ objs[agents[i]].rounds_survived = 1
          /\ objs[agents[i]].answers_given = 1


\* C34: in a run of at least two agents under ranked voting, when the votes of
\* a round are tallied every agent that voted has cast at least one vote by its
\* votes_cast, and every agent whose name got points has votes received.
C34_RankedVotesAreCounted ==
    (method = "ranked-choice" /\ num_agents >= 2 /\ pc \in {"eliminate", "evolve"}) =>
        \A i \in DOMAIN agents_before :
            /\ objs[agents_before[i]].votes_cast >= 1
            /\ TallyValue(vote_results.tally, objs[agents_before[i]].name) > 0
                  => objs[agents_before[i]].votes_received > 0

\* under ranked voting no agent's votes_cast or votes_received ever leaves 0,
\* and every parent is selected by the rounds survived
RankedVotingLeavesCountersAlone ==
    method = "ranked-choice" =>
        /\ \A o \in DOMAIN objs : objs[o].votes_cast = 0 /\ objs[o].votes_received = 0
        /\ pc = "evolve" =>
              ParentWeights(objs, agents)
                  = [i \in DOMAIN agents |-> objs[agents[i]].rounds_survived + 1]


\* C35: a round that fails leaves the population as it was when the round was
\* entered, and no round, failed or not, is left with the population empty.
C35_FailedRoundKeepsThePopulation ==
    /\ (pc = "crashed" /\ round_num >= 1) => agents = agents_before
    /\ (round_num >= 1 /\ ~InRound) => agents # <<>>

\* a round of two agents or more fails only in conduct_vote, with the population
\* as it was
FailedRoundOfSeveralKeepsThePopulation ==
    (pc = "crashed" /\ round_num >= 1 /\ num_agents >= 2) =>
        /\ agents = agents_before
        /\ ~KnownMethod


\* C36: on the roster of a run, as it is at any moment of the run, get_lineage
\* returns for every agent of the roster: the walk from parent name to the
\* first agent of that name comes to an end.
C36_LineageTerminates ==
    \A i \in DOMAIN all_agents_history :
        get_lineage(objs, all_agents_history[i], all_agents_history).returns

\* a roster of a run in which two agents share a name and the agent spawned
\* last has a lineage of three names
C36_Witness ==
    /\ pc = "done"
    /\ Len(all_agents_history) >= 4
    /\ \E i, j \in DOMAIN all_agents_history :
          i # j /\ objs[all_agents_history[i]].name = objs[all_agents_history[j]].name
    /\ Len(get_lineage(objs, last.spawned, all_agents_history).lineage) = 3


\* the status changes only from idle to running, from running to completed or
\* error, and from completed or error to running
StatusOrder ==
    [][simulation_status.status' # simulation_status.status =>
          \/ simulation_status.status \in {"idle", "completed", "error"}
                /\ simulation_status.status' = "running"
          \/ simulation_status.status = "running"
                /\ simulation_status.status' \in {"completed", "error"}]_vars

\* the background run that set the status last returned the empty dict from
\* run_simulation: it found the generator unreachable
LastRunAborted ==
    /\ current_simulation # 0
    /\ background_tasks[current_simulation].at = "returned"
    /\ background_tasks[current_simulation].results = <<>>

\* C37: the status goes idle, running, then completed or error; it is
\* 'completed' only after a run that went through its rounds, never after one
\* that aborted on an unreachable generator, and no result can be fetched
\* after such a run.
C37_CompletedMeansRoundsWereRun ==
    /\ StatusOrder
    /\ [](LastRunAborted =>
            /\ simulation_status.status # "completed"
            /\ get_simulation_results(simulation_status, simulation_results).status_code
                  # 200)


\* C38: whenever a run is about to enter a round or has just left one, the
\* active population has exactly num_agents agents, whether the run was
\* started on a new simulation or, as the command line does with a
\* personalities file, after a call of initialize_agents.
C38_ConfiguredSizeAtEveryRoundBoundary ==
    pc = "loop" => Len(agents) = num_agents


\* the names of a list
Names(list) == {list[i] : i \in DOMAIN list}

\* the histories and the round records agree on who left and who came: one
\* record of each kind per completed round, numbered by the round, the
\* eliminated name of the round record being the name of the elimination
\* record and the spawned agent being among the round's survivors
RoundRecordsAgree ==
    (num_agents >= 2 /\ pc \in {"loop", "done", "finalize_crashed"}) =>
        /\ Len(elimination_history) = current_round
        /\ Len(creation_history) = current_round
        /\ Len(rounds_log) = current_round
        /\ \A i \in 1..current_round :
            /\ elimination_history[i].round = i
            /\ creation_history[i].round = i
            /\ rounds_log[i].round_number = i
            /\ elimination_history[i].agent_name = rounds_log[i].eliminated_agent
            /\ creation_history[i].agent_name = rounds_log[i].new_agent
            /\ rounds_log[i].new_agent \in Names(rounds_log[i].surviving_agents)

\* C39: after k completed rounds of a run of at least two agents, the
\* elimination history and the creation history hold k records each, the i-th
\* of each carries round i, the i-th elimination record names the agent the
\* i-th round record gives as eliminated, and that name is not among the
\* round record's survivors while the name of the spawned agent is.
C39_EliminatedIsNotAmongTheSurvivors ==
    /\ RoundRecordsAgree
    /\ (num_agents >= 2 /\ pc \in {"loop", "done", "finalize_crashed"}) =>
          \A i \in 1..current_round :
            rounds_log[i].eliminated_agent \notin Names(rounds_log[i].surviving_agents)

=============================================================================
